---- MODULE Spec2Model ----
(***************************************************************************)
(* Worktree lifecycle and sibling-rebase orchestration of the Beads Kanban *)
(* server (server/src/routes/worktree.rs).                                 *)
(*                                                                         *)
(* Strings are sequences of tokens: a bead id is <<"A">>, the branch of a  *)
(* bead is <<"bd-">> \o id, a path is <<repo, "/.worktrees/">> \o branch.  *)
(* A handler is split at each awaited subprocess: the action that returns  *)
(* from a subprocess applies the tool's effect, runs the synchronous code  *)
(* that follows and issues the next subprocess.                            *)
(***************************************************************************)
EXTENDS Integers, Sequences, FiniteSets, TLC

VARIABLES
    dirs,       \* names of the directories present under /repo/.worktrees
    branches,   \* names of the local branches of /repo
    gitignore,  \* TRUE iff /repo/.gitignore contains ".worktrees"
    store,      \* /repo/.beads/issues.jsonl: [readable, lines]
    procs,      \* the request handlers that may run (fixed by Init)
    call        \* call[p]: the request handler p is running, or has finished

vars == <<dirs, branches, gitignore, store, procs, call>>

----------------------------------------------------------------------------
(* Bounds *)

\* Longest tool listing of linked worktrees drawn for `git worktree list`.
MaxListed == 2

\* Request handlers that exist; Init chooses how many of them run.
Procs == {1, 2}

\* Bead ids used in requests, records and listings.
BeadIds == {<<"A">>, <<"B">>, <<"C">>}

\* Repository paths a request may name: a directory, a missing path, a file.
RepoPaths == {"/repo", "/missing", "/file"}

----------------------------------------------------------------------------
(* Strings *)

\* str::contains on token sequences: pat occurs as a contiguous run of s.
Contains(s, pat) ==
    \E i \in 0..(Len(s) - Len(pat)) :
        \A j \in 1..Len(pat) : s[i + j] = pat[j]

\* str::starts_with
StartsWith(s, pat) ==
    /\ Len(pat) <= Len(s)
    /\ \A j \in 1..Len(pat) : s[j] = pat[j]

\* str::ends_with
EndsWith(s, pat) ==
    /\ Len(pat) <= Len(s)
    /\ \A j \in 1..Len(pat) : s[Len(s) - Len(pat) + j] = pat[j]

\* format!("bd-{}", bead_id)
BranchName(bead) == <<"bd-">> \o bead

\* repo_path.join(".worktrees").join(&branch_name)
WorktreePath(repo, branch) == <<repo, "/.worktrees/">> \o branch

\* The repository root as a working directory.
RootPath(repo) == <<repo>>

\* Path::exists on the repository path.
RepoExists(repo) == repo \in {"/repo", "/file"}

\* Path::is_dir on the repository path.
RepoIsDir(repo) == repo = "/repo"

\* Mutant: a workspace also exists while its branch does.
PathExistsOrBranch(repo, branch) == repo = "/repo" /\ (branch \in dirs \/ branch \in branches)

\* worktree_path.exists(): only /repo has a .worktrees directory.
PathExists(repo, branch) == repo = "/repo" /\ branch \in dirs

----------------------------------------------------------------------------
(* Subprocess outcomes.  kind "ok" is a zero exit, "fail" a non-zero exit  *)
(* with stderr text, "spawn" a failure to start the process (Err).         *)

OutOk == [kind |-> "ok", stderr |-> <<>>]
OutFail(text) == [kind |-> "fail", stderr |-> text]
OutSpawn == [kind |-> "spawn", stderr |-> <<"No such file or directory">>]

ErrAlreadyExists == <<"fatal:", "a branch named", "already exists">>
ErrDirty == <<"fatal:", "contains modified or untracked files", ", use --force to delete it">>
ErrOther == <<"fatal:", "unexpected failure">>

\* A command issued by a handler: program and arguments, and its working
\* directory.
Cmd(name, arg, cwd) == [cmd |-> name, arg |-> arg, cwd |-> cwd]

----------------------------------------------------------------------------
(* Responses *)

NoResp == [kind |-> "none"]

ErrorResp(code, prefix, text) ==
    [kind |-> "error", code |-> code, error |-> <<prefix>> \o text]

BadRepo(repo) ==
    ErrorResp(400, "Repository path does not exist: ", <<repo>>)

CreateWorktreeResponse(path, branch, already) ==
    [kind |-> "create", code |-> 200, success |-> TRUE,
     worktree_path |-> path, branch |-> branch, already_existed |-> already]

DeleteWorktreeResponse ==
    [kind |-> "delete", code |-> 200, success |-> TRUE]

----------------------------------------------------------------------------
(* Calls *)

IdleCall ==
    [op |-> "none", pc |-> "idle", repo |-> "", bead |-> <<>>,
     trace |-> <<>>, stderr |-> <<>>, pre |-> [dir |-> FALSE, branch |-> FALSE, ignored |-> FALSE],
     before |-> [pre |-> [dir |-> FALSE, branch |-> FALSE, ignored |-> FALSE],
                 resp |-> NoResp],
     outs |-> <<>>, worktrees |-> <<>>,
     siblings |-> <<>>, cur |-> [path |-> <<>>, bead |-> <<>>, outs |-> <<>>],
     last |-> [path |-> <<>>, bead |-> <<>>, outs |-> <<>>],
     results |-> <<>>, skipped |-> <<>>, local |-> <<>>, resp |-> NoResp]

\* The request p takes next.  Beside the arguments it keeps two records
\* for the properties: `pre`, whether the workspace directory, the branch
\* and the ignore-list entry exist as the call starts, and `before`, the start and the response of
\* the call p finished just before when that was the same lifecycle
\* operation on the same arguments.
NewCall(p, op, repo, bead) ==
    [IdleCall EXCEPT !.op = op, !.repo = repo, !.bead = bead,
                     !.pre = [dir |-> PathExists(repo, BranchName(bead)),
                              branch |-> BranchName(bead) \in branches,
                              ignored |-> gitignore],
                     !.before = IF /\ call[p].pc = "done"
                                   /\ op \in {"create", "delete"}
                                   /\ call[p].op = op
                                   /\ call[p].repo = repo
                                   /\ call[p].bead = bead
                                   THEN [pre |-> call[p].pre, resp |-> call[p].resp]
                                   ELSE @]

\* The handler returns `resp`.
Return(c, resp) == [c EXCEPT !.pc = "done", !.resp = resp]

\* The awaited subprocess returns with `out`: c.outs keeps how the
\* subprocesses of the call ended, c.cur.outs those of the sibling in hand.
Returned(c, out) == [c EXCEPT !.outs = Append(@, out)]
SiblingReturned(c, out) == [c EXCEPT !.cur.outs = Append(@, out)]

\* The handler spawns `cmd` and awaits it at `pc`.
Issue(c, pc, cmd) == [c EXCEPT !.pc = pc, !.trace = Append(@, cmd)]

Free(p) == p \in procs /\ call[p].pc \in {"idle", "done"}

----------------------------------------------------------------------------
(* External tools: which outcomes a command can have in the current state, *)
(* and what a successful command does to the repository.                   *)

\* git worktree add <path> -b <branch> <base>
AddNewOutcomes(branch) ==
    (IF branch \in branches \/ branch \in dirs
        THEN {OutFail(ErrAlreadyExists)} ELSE {OutOk})
    \cup {OutFail(ErrOther), OutSpawn}

\* git worktree add <path> <branch>
AddExistingOutcomes(branch) ==
    (IF branch \in branches /\ branch \notin dirs THEN {OutOk} ELSE {})
    \cup {OutFail(ErrOther), OutSpawn}

\* git worktree remove <path>
RemoveOutcomes(branch) ==
    (IF branch \in dirs THEN {OutOk, OutFail(ErrDirty)} ELSE {})
    \cup {OutFail(ErrOther), OutSpawn}

\* git worktree remove --force <path>
ForceRemoveOutcomes(branch) ==
    (IF branch \in dirs THEN {OutOk} ELSE {})
    \cup {OutFail(ErrOther), OutSpawn}

\* git branch -D <branch>
BranchDeleteOutcomes(branch) ==
    (IF branch \in branches THEN {OutOk} ELSE {})
    \cup {OutFail(ErrOther), OutSpawn}

\* Mutant: the first record of the store, whatever its id.
RecordIndexAnyId(lines, bead) ==
    LET hits == {i \in 1..Len(lines) : lines[i].kind = "rec"}
    IN  IF hits = {} THEN 0 ELSE CHOOSE i \in hits : \A j \in hits : i <= j

\* The first record of the store with this id, 0 if there is none.
RecordIndex(lines, bead) ==
    LET hits == {i \in 1..Len(lines) : lines[i].kind = "rec" /\ lines[i].id = bead}
    IN  IF hits = {} THEN 0 ELSE CHOOSE i \in hits : \A j \in hits : i <= j

\* bd close <bead>
CloseOutcomes(bead) ==
    (IF store.readable /\ RecordIndex(store.lines, bead) # 0 THEN {OutOk} ELSE {})
    \cup {OutFail(ErrOther), OutSpawn}

\* The store after a successful `bd close`.
Closed(st, bead) ==
    [st EXCEPT !.lines = [i \in 1..Len(st.lines) |->
        IF st.lines[i].kind = "rec" /\ st.lines[i].id = bead
            THEN [st.lines[i] EXCEPT !.status = "closed"]
            ELSE st.lines[i]]]

\* The store after a successful `bd update <bead> --status <status>`.
Updated(st, bead, status) ==
    [st EXCEPT !.lines = [i \in 1..Len(st.lines) |->
        IF st.lines[i].kind = "rec" /\ st.lines[i].id = bead
            THEN [st.lines[i] EXCEPT !.status = status]
            ELSE st.lines[i]]]

\* A subprocess whose working directory is not a directory cannot be spawned.
Spawnable(repo, outs) == IF RepoIsDir(repo) THEN outs ELSE {OutSpawn}

----------------------------------------------------------------------------
(* create_worktree *)

\* if !repo_path.exists() || !repo_path.is_dir()
CreateRepoInvalid(repo) == ~RepoExists(repo) \/ ~RepoIsDir(repo)

\* ensure_gitignore_entry: the entry is appended when the file lacks it and
\* the file can be opened; an I/O error leaves the file as it was.
EnsureGitignoreEntry(has, ioOk) == has \/ ioOk

\* Mutant: every failure of the first add is retried.
AddRetryableAlways(stderr) == TRUE

\* if stderr.contains("already exists")
AddRetryable(stderr) == Contains(stderr, <<"already exists">>)

\* Mutant: the existence check is missing.
CreatePrefixNoExistCheck(c, mkdirOk) ==
    LET branch == BranchName(c.bead)
        path == WorktreePath(c.repo, branch)
    IN  IF ~mkdirOk
            THEN Return(c, ErrorResp(500, "Failed to create .worktrees directory: ",
                                     <<"io error">>))
        ELSE Issue(c, "create_add_new",
                   Cmd("git worktree add -b", path \o <<"-b">> \o branch \o <<"main">>,
                       RootPath(c.repo)))

\* The synchronous prefix of create_worktree, up to the first subprocess.
CreatePrefix(c, mkdirOk) ==
    LET branch == BranchName(c.bead)
        path == WorktreePath(c.repo, branch)
    IN  IF PathExists(c.repo, branch)
            THEN Return(c, CreateWorktreeResponse(path, branch, TRUE))
        ELSE IF ~mkdirOk
            THEN Return(c, ErrorResp(500, "Failed to create .worktrees directory: ",
                                     <<"io error">>))
        ELSE Issue(c, "create_add_new",
                   Cmd("git worktree add -b", path \o <<"-b">> \o branch \o <<"main">>, RootPath(c.repo)))

CreateBegin(p, repo, bead, ioOk, mkdirOk) ==
    /\ Free(p)
    /\ IF CreateRepoInvalid(repo)
          THEN /\ call' = [call EXCEPT ![p] = Return(NewCall(p, "create", repo, bead), BadRepo(repo))]
               /\ UNCHANGED gitignore
          ELSE /\ gitignore' = EnsureGitignoreEntry(gitignore, ioOk)
               /\ call' = [call EXCEPT ![p] =
                              CreatePrefix(NewCall(p, "create", repo, bead), mkdirOk)]
    /\ UNCHANGED <<dirs, branches, store, procs>>

\* Mutant: a fresh worktree is reported as already existing.
CreateAfterAddNewFlagged(c, out) ==
    LET branch == BranchName(c.bead)
        path == WorktreePath(c.repo, branch)
    IN  IF out.kind = "ok"
            THEN Return(c, CreateWorktreeResponse(path, branch, TRUE))
        ELSE IF out.kind = "fail"
            THEN IF AddRetryable(out.stderr)
                    THEN Issue(c, "create_add_existing",
                               Cmd("git worktree add", path \o branch, RootPath(c.repo)))
                    ELSE Return(c, ErrorResp(500, "Failed to create worktree: ", out.stderr))
        ELSE Return(c, ErrorResp(500, "Failed to run git command: ", out.stderr))

\* The code after the first `git worktree add` returns.
CreateAfterAddNew(c, out) ==
    LET branch == BranchName(c.bead)
        path == WorktreePath(c.repo, branch)
    IN  IF out.kind = "ok"
            THEN Return(c, CreateWorktreeResponse(path, branch, FALSE))
        ELSE IF out.kind = "fail"
            THEN IF AddRetryable(out.stderr)
                    THEN Issue(c, "create_add_existing",
                               Cmd("git worktree add", path \o branch, RootPath(c.repo)))
                    ELSE Return(c, ErrorResp(500, "Failed to create worktree: ", out.stderr))
        ELSE Return(c, ErrorResp(500, "Failed to run git command: ", out.stderr))

CreateAddNewReturns(p, out) ==
    /\ p \in procs
    /\ call[p].pc = "create_add_new"
    /\ out \in Spawnable(call[p].repo, AddNewOutcomes(BranchName(call[p].bead)))
    /\ IF out.kind = "ok"
          THEN /\ dirs' = dirs \cup {BranchName(call[p].bead)}
               /\ branches' = branches \cup {BranchName(call[p].bead)}
          ELSE UNCHANGED <<dirs, branches>>
    /\ call' = [call EXCEPT ![p] = CreateAfterAddNew(Returned(call[p], out), out)]
    /\ UNCHANGED <<gitignore, store, procs>>

\* The code after the retry `git worktree add <path> <branch>` returns.
CreateAfterAddExisting(c, out) ==
    LET branch == BranchName(c.bead)
        path == WorktreePath(c.repo, branch)
    IN  IF out.kind = "ok"
            THEN Return(c, CreateWorktreeResponse(path, branch, TRUE))
        ELSE IF out.kind = "fail"
            THEN Return(c, ErrorResp(500, "Failed to create worktree: ", out.stderr))
        ELSE Return(c, ErrorResp(500, "Failed to run git command: ", out.stderr))

CreateAddExistingReturns(p, out) ==
    /\ p \in procs
    /\ call[p].pc = "create_add_existing"
    /\ out \in Spawnable(call[p].repo, AddExistingOutcomes(BranchName(call[p].bead)))
    /\ IF out.kind = "ok"
          THEN dirs' = dirs \cup {BranchName(call[p].bead)}
          ELSE UNCHANGED dirs
    /\ call' = [call EXCEPT ![p] = CreateAfterAddExisting(Returned(call[p], out), out)]
    /\ UNCHANGED <<branches, gitignore, store, procs>>

----------------------------------------------------------------------------
(* delete_worktree *)

\* if !repo_path.exists()
DeleteRepoInvalid(repo) == ~RepoExists(repo)

\* Mutant: every failure of the plain removal is retried with --force.
RemoveForceableAlways(stderr) == TRUE

\* if stderr.contains("contains modified or untracked files")
RemoveForceable(stderr) == Contains(stderr, <<"contains modified or untracked files">>)

\* Mutant: the branch is consulted instead of the directory.
DeleteChecksBranch(repo, branch) == branch \notin branches

\* The worktree is absent: nothing to delete.
DeleteNothingToDo(repo, branch) == ~PathExists(repo, branch)

\* The synchronous prefix of delete_worktree, up to the first subprocess.
DeletePrefix(c) ==
    LET branch == BranchName(c.bead)
        path == WorktreePath(c.repo, branch)
    IN  IF DeleteRepoInvalid(c.repo)
            THEN Return(c, BadRepo(c.repo))
        ELSE IF DeleteNothingToDo(c.repo, branch)
            THEN Return(c, DeleteWorktreeResponse)
        ELSE Issue(c, "delete_remove",
                   Cmd("git worktree remove", path, RootPath(c.repo)))

DeleteBegin(p, repo, bead) ==
    /\ Free(p)
    /\ call' = [call EXCEPT ![p] = DeletePrefix(NewCall(p, "delete", repo, bead))]
    /\ UNCHANGED <<dirs, branches, gitignore, store, procs>>

\* if worktree_removed: issue the best-effort branch deletion.
DeleteCleanup(c) ==
    Issue(c, "delete_branch",
          Cmd("git branch -D", BranchName(c.bead), RootPath(c.repo)))

\* The code after the plain `git worktree remove` returns.
DeleteAfterRemove(c, out) ==
    LET path == WorktreePath(c.repo, BranchName(c.bead))
    IN  IF out.kind = "ok"
            THEN DeleteCleanup(c)
        ELSE IF out.kind = "fail"
            THEN IF RemoveForceable(out.stderr)
                    THEN Issue([c EXCEPT !.stderr = out.stderr], "delete_force",
                               Cmd("git worktree remove --force", path, RootPath(c.repo)))
                    ELSE Return(c, ErrorResp(500, "Failed to remove worktree: ", out.stderr))
        ELSE Return(c, ErrorResp(500, "Failed to run git command: ", out.stderr))

DeleteRemoveReturns(p, out) ==
    /\ p \in procs
    /\ call[p].pc = "delete_remove"
    /\ out \in Spawnable(call[p].repo, RemoveOutcomes(BranchName(call[p].bead)))
    /\ IF out.kind = "ok"
          THEN dirs' = dirs \ {BranchName(call[p].bead)}
          ELSE UNCHANGED dirs
    /\ call' = [call EXCEPT ![p] = DeleteAfterRemove(Returned(call[p], out), out)]
    /\ UNCHANGED <<branches, gitignore, store, procs>>

\* The code after the forced removal returns: any failure reports the
\* stderr of the plain removal.
DeleteAfterForce(c, out) ==
    IF out.kind = "ok"
        THEN DeleteCleanup(c)
        ELSE Return(c, ErrorResp(500, "Failed to remove worktree: ", c.stderr))

DeleteForceReturns(p, out) ==
    /\ p \in procs
    /\ call[p].pc = "delete_force"
    /\ out \in Spawnable(call[p].repo, ForceRemoveOutcomes(BranchName(call[p].bead)))
    /\ IF out.kind = "ok"
          THEN dirs' = dirs \ {BranchName(call[p].bead)}
          ELSE UNCHANGED dirs
    /\ call' = [call EXCEPT ![p] = DeleteAfterForce(Returned(call[p], out), out)]
    /\ UNCHANGED <<branches, gitignore, store, procs>>

\* Mutant: a failed branch deletion fails the call.
DeleteAfterBranchStrict(c, out) ==
    IF out.kind = "ok"
        THEN Issue(c, "delete_close", Cmd("bd close", c.bead, RootPath(c.repo)))
        ELSE Return(c, ErrorResp(500, "Failed to delete branch: ", out.stderr))

\* let _ = git branch -D: the outcome is dropped, then `bd close` is issued.
DeleteAfterBranch(c, out) ==
    Issue(c, "delete_close", Cmd("bd close", c.bead, RootPath(c.repo)))

DeleteBranchReturns(p, out) ==
    /\ p \in procs
    /\ call[p].pc = "delete_branch"
    /\ out \in Spawnable(call[p].repo, BranchDeleteOutcomes(BranchName(call[p].bead)))
    /\ IF out.kind = "ok"
          THEN branches' = branches \ {BranchName(call[p].bead)}
          ELSE UNCHANGED branches
    /\ call' = [call EXCEPT ![p] = DeleteAfterBranch(Returned(call[p], out), out)]
    /\ UNCHANGED <<dirs, gitignore, store, procs>>

\* let _ = bd close: the outcome is dropped and success is returned.
DeleteAfterClose(c, out) == Return(c, DeleteWorktreeResponse)

DeleteCloseReturns(p, out) ==
    /\ p \in procs
    /\ call[p].pc = "delete_close"
    /\ out \in Spawnable(call[p].repo, CloseOutcomes(call[p].bead))
    /\ IF out.kind = "ok"
          THEN store' = Closed(store, call[p].bead)
          ELSE UNCHANGED store
    /\ call' = [call EXCEPT ![p] = DeleteAfterClose(Returned(call[p], out), out)]
    /\ UNCHANGED <<dirs, branches, gitignore, procs>>


----------------------------------------------------------------------------
(* Worktree listing *)

None == [some |-> FALSE, v |-> <<>>]
Some(v) == [some |-> TRUE, v |-> v]

\* str::trim_start_matches: every leading occurrence of the token is removed.
RECURSIVE TrimStartMatches(_, _)
TrimStartMatches(s, tok) ==
    IF s # <<>> /\ Head(s) = tok THEN TrimStartMatches(Tail(s), tok) ELSE s

\* extract_bead_id
extract_bead_id(branch) ==
    IF StartsWith(branch, <<"bd-">>)
        THEN Some(TrimStartMatches(branch, "bd-"))
        ELSE None

WorktreeEntry(path, branch) ==
    [path |-> path, branch |-> branch, bead_id |-> extract_bead_id(branch)]

\* Save the entry in progress if it is complete and lies under .worktrees.
PushEntry(acc, cp, cb) ==
    IF cp.some /\ cb.some /\ Contains(cp.v, <<"/.worktrees/", "bd-">>)
        THEN Append(acc, WorktreeEntry(cp.v, cb.v))
        ELSE acc

\* The loop of parse_worktree_list over the porcelain lines.
RECURSIVE ParseLines(_, _, _, _)
ParseLines(lines, cp, cb, acc) ==
    IF lines = <<>> THEN PushEntry(acc, cp, cb)
    ELSE LET line == Head(lines)
         IN  IF StartsWith(line, <<"worktree ">>)
                 THEN ParseLines(Tail(lines), Some(TrimStartMatches(line, "worktree ")),
                                 None, PushEntry(acc, cp, cb))
             ELSE IF StartsWith(line, <<"branch ">>)
                 THEN ParseLines(Tail(lines), cp,
                                 Some(TrimStartMatches(TrimStartMatches(line, "branch "),
                                                       "refs/heads/")),
                                 acc)
             ELSE ParseLines(Tail(lines), cp, cb, acc)

\* The directory scan: each bd-* directory no listed path ends with is appended.
RECURSIVE ScanDirs(_, _, _)
ScanDirs(acc, repo, scan) ==
    IF scan = <<>> THEN acc
    ELSE LET name == Head(scan)
             listed == \E i \in 1..Len(acc) : EndsWith(acc[i].path, name)
         IN  IF StartsWith(name, <<"bd-">>) /\ ~listed
                 THEN ScanDirs(Append(acc, WorktreeEntry(WorktreePath(repo, name), name)),
                               repo, Tail(scan))
                 ELSE ScanDirs(acc, repo, Tail(scan))

\* parse_worktree_list(output, repo_path); scan is fs::read_dir's answer.
parse_worktree_list(output, repo, scan) ==
    ScanDirs(ParseLines(output, None, None, <<>>), repo, scan)

\* The orders in which fs::read_dir may enumerate the directories.
ScanOrders(repo) ==
    IF repo = "/repo"
        THEN {s \in [1..Cardinality(dirs) -> dirs] :
                 \A i, j \in 1..Cardinality(dirs) : i # j => s[i] # s[j]}
        ELSE {<<>>}

\* Bead ids in the order the tool lists their worktrees.
BeadOrder == <<(<<"A">>), (<<"B">>), (<<"C">>)>>

\* What the tool reports about the i-th bead's worktree: not listed, on its
\* own branch, on another branch; the first may also be on the branch of
\* the next bead.
ListKinds(i) ==
    {"unlisted", "own", "feature"} \cup (IF i = 1 THEN {"next"} ELSE {})

NextBead(i) == BeadOrder[(i % Len(BeadOrder)) + 1]

\* The porcelain lines of one worktree.
PorcelainEntry(path, kind, i) ==
    <<(<<"worktree ">> \o path), <<"HEAD 0000">>>>
    \o (CASE kind = "own" -> << <<"branch ", "refs/heads/">> \o BranchName(BeadOrder[i]) >>
          [] kind = "next" -> << <<"branch ", "refs/heads/">> \o BranchName(NextBead(i)) >>
          [] kind = "feature" -> << <<"branch ", "refs/heads/", "feature">> >>
          [] kind = "main" -> << <<"branch ", "refs/heads/", "main">> >>
          [] OTHER -> << <<"detached">> >>)
    \o << <<>> >>

RECURSIVE Porcelain(_, _, _)
Porcelain(repo, f, i) ==
    IF i > Len(BeadOrder) THEN <<>>
    ELSE (IF f[i] = "unlisted" THEN <<>>
          ELSE PorcelainEntry(WorktreePath(repo, BranchName(BeadOrder[i])), f[i], i))
         \o Porcelain(repo, f, i + 1)

\* The outputs `git worktree list --porcelain` may print: the primary
\* worktree, then at most MaxListed linked worktrees.
Listings(repo) ==
    {PorcelainEntry(RootPath(repo), "main", 1) \o Porcelain(repo, f, 1) :
        f \in {g \in [1..Len(BeadOrder) -> {"unlisted", "own", "feature", "next"}] :
                  /\ \A i \in 1..Len(BeadOrder) : g[i] \in ListKinds(i)
                  /\ Cardinality({i \in 1..Len(BeadOrder) : g[i] # "unlisted"}) <= MaxListed}}

----------------------------------------------------------------------------
(* rebase_siblings *)

\* get_bead_status: the status of the first record with this id; None when
\* the file cannot be read or holds no such record.
get_bead_status(repo, bead) ==
    IF repo # "/repo" \/ ~store.readable THEN None
    ELSE LET i == RecordIndex(store.lines, bead)
         IN  IF i = 0 THEN None ELSE Some(store.lines[i].status)

\* Mutant: any known status makes the sibling eligible.
EligibleAnyKnown(status) == status.some

\* status.as_deref() == Some("inreview")
Eligible(status) == status = Some("inreview")

\* Mutant: every entry with a bead id is a sibling.
IsSiblingAnyBead(w, exclude) == w.bead_id.some

\* The filter of the listing: entries with a bead id other than the excluded.
IsSibling(w, exclude) == w.bead_id.some /\ w.bead_id.v # exclude

RECURSIVE Siblings(_, _)
Siblings(ws, exclude) ==
    IF ws = <<>> THEN <<>>
    ELSE (IF IsSibling(Head(ws), exclude) THEN <<Head(ws)>> ELSE <<>>)
         \o Siblings(Tail(ws), exclude)

RebaseSiblingResult(bead, ok, prefix, text) ==
    [bead_id |-> bead, success |-> ok,
     error |-> IF ok THEN None ELSE Some(<<prefix>> \o text)]

RebaseSiblingsResponse(results, skipped) ==
    [kind |-> "rebase", code |-> 200, results |-> results, skipped |-> skipped]

\* if let Err(e) = fetch_output: only a failure to spawn aborts the batch.
RootFetchAborts(out) == out.kind = "spawn"

\* if let Err(e) = fetch_result: only a failure to spawn fails the sibling.
SiblingFetchFails(out) == out.kind = "spawn"

\* A traced read of the issue store: not a subprocess.
Lookup(bead, status, repo) ==
    [cmd |-> "get_bead_status", arg |-> bead, cwd |-> RootPath(repo), status |-> status]

\* Mutant: the loop steps over the sibling that follows the one handled.
RemainingSkipsOne(siblings) ==
    IF Len(siblings) >= 2 THEN Tail(Tail(siblings)) ELSE <<>>

\* The siblings still to be processed after one was handled.
Remaining(siblings) == Tail(siblings)

\* The for loop of rebase_siblings, run until the next subprocess is
\* awaited or the list is exhausted.  Each status lookup is traced.
RECURSIVE Advance(_)
Advance(c) ==
    IF c.siblings = <<>>
        THEN Return(c, RebaseSiblingsResponse(c.results, c.skipped))
    ELSE LET s == Head(c.siblings)
             bead == s.bead_id.v
             status == get_bead_status(c.repo, bead)
             looked == [c EXCEPT !.trace = Append(@, Lookup(bead, status, c.repo)),
                                 !.siblings = Remaining(c.siblings)]
         IN  IF ~Eligible(status)
                 THEN Advance([looked EXCEPT !.skipped = Append(@, bead)])
                 ELSE Issue([looked EXCEPT !.cur = [path |-> s.path, bead |-> bead, outs |-> <<>>]],
                            "sibling_fetch", Cmd("git fetch origin", <<>>, s.path))

\* Mutant: the newest result is put in front of the earlier ones.
RecordInFront(c, result) == Advance([c EXCEPT !.results = <<result>> \o @, !.last = c.cur])

\* Mutant: a failed sibling ends the batch with an error.
RecordAbortOnFailure(c, result) ==
    IF result.success
        THEN Advance([c EXCEPT !.results = Append(@, result), !.last = c.cur])
        ELSE Return([c EXCEPT !.results = Append(@, result), !.last = c.cur],
                    ErrorResp(500, "Failed to rebase sibling: ", result.error.v))

\* results.push(result), then the loop goes on.  c.last keeps the sibling
\* the result is about and how its subprocesses ended.
Record(c, result) == Advance([c EXCEPT !.results = Append(@, result), !.last = c.cur])

RebaseBegin(p, repo, exclude) ==
    /\ Free(p)
    /\ call' = [call EXCEPT ![p] =
          IF ~RepoExists(repo)
              THEN Return(NewCall(p, "rebase", repo, exclude), BadRepo(repo))
              ELSE Issue(NewCall(p, "rebase", repo, exclude), "rebase_list",
                         Cmd("git worktree list --porcelain", <<>>, RootPath(repo)))]
    /\ UNCHANGED <<dirs, branches, gitignore, store, procs>>

\* Mutant: the siblings are processed without a root fetch.
RebaseAfterListNoRootFetch(c, out, output, scan) ==
    IF out.kind = "ok"
        THEN LET worktrees == parse_worktree_list(output, c.repo, scan)
             IN  Advance([c EXCEPT !.worktrees = worktrees,
                                   !.siblings = Siblings(worktrees, c.bead)])
    ELSE IF out.kind = "fail"
        THEN Return(c, ErrorResp(500, "Failed to list worktrees: ", out.stderr))
    ELSE Return(c, ErrorResp(500, "Failed to run git command: ", out.stderr))

\* The code after `git worktree list` returns: parse, filter, issue the
\* root fetch.
RebaseAfterList(c, out, output, scan) ==
    IF out.kind = "ok"
        THEN LET worktrees == parse_worktree_list(output, c.repo, scan)
             IN  Issue([c EXCEPT !.worktrees = worktrees,
                                 !.siblings = Siblings(worktrees, c.bead)],
                       "rebase_root_fetch", Cmd("git fetch origin", <<>>, RootPath(c.repo)))
    ELSE IF out.kind = "fail"
        THEN Return(c, ErrorResp(500, "Failed to list worktrees: ", out.stderr))
    ELSE Return(c, ErrorResp(500, "Failed to run git command: ", out.stderr))

RebaseListReturns(p, out) ==
    /\ p \in procs
    /\ call[p].pc = "rebase_list"
    /\ out \in Spawnable(call[p].repo, {OutOk, OutFail(ErrOther), OutSpawn})
    /\ \E output \in (IF out.kind = "ok" THEN Listings(call[p].repo) ELSE {<<>>}),
          scan \in (IF out.kind = "ok" THEN ScanOrders(call[p].repo) ELSE {<<>>}) :
          call' = [call EXCEPT ![p] =
                      RebaseAfterList(Returned(call[p], out), out, output, scan)]
    /\ UNCHANGED <<dirs, branches, gitignore, store, procs>>

\* The code after the root `git fetch origin` returns.
RebaseAfterRootFetch(c, out) ==
    IF RootFetchAborts(out)
        THEN Return(c, ErrorResp(500, "Failed to fetch from origin: ", out.stderr))
        ELSE Advance(c)

RebaseRootFetchReturns(p, out) ==
    /\ p \in procs
    /\ call[p].pc = "rebase_root_fetch"
    /\ out \in Spawnable(call[p].repo, {OutOk, OutFail(ErrOther), OutSpawn})
    /\ call' = [call EXCEPT ![p] = RebaseAfterRootFetch(Returned(call[p], out), out)]
    /\ UNCHANGED <<dirs, branches, gitignore, store, procs>>

(* rebase_single_worktree *)

\* A subprocess run in a sibling's workspace: it cannot be spawned when the
\* workspace directory is gone.
InWorkspace(path, outs) ==
    IF \E name \in dirs : path = WorktreePath("/repo", name) THEN outs ELSE {OutSpawn}

ErrConflict == <<"CONFLICT", "could not apply">>
ErrRejected == <<"rejected", "stale info">>

\* Mutant: a fetch that cannot be spawned ends the batch with an error.
SiblingAfterFetchEndsBatch(c, out) ==
    IF SiblingFetchFails(out)
        THEN Return(c, ErrorResp(500, "Failed to fetch: ", out.stderr))
        ELSE Issue(c, "sibling_rebase", Cmd("git rebase origin/main", <<>>, c.cur.path))

SiblingAfterFetch(c, out) ==
    IF SiblingFetchFails(out)
        THEN Record(c, RebaseSiblingResult(c.cur.bead, FALSE, "Failed to fetch: ", out.stderr))
        ELSE Issue(c, "sibling_rebase", Cmd("git rebase origin/main", <<>>, c.cur.path))

SiblingFetchReturns(p, out) ==
    /\ p \in procs
    /\ call[p].pc = "sibling_fetch"
    /\ out \in InWorkspace(call[p].cur.path, {OutOk, OutFail(ErrOther), OutSpawn})
    /\ call' = [call EXCEPT ![p] = SiblingAfterFetch(SiblingReturned(call[p], out), out)]
    /\ UNCHANGED <<dirs, branches, gitignore, store, procs>>

\* Mutant: a failed rebase is recorded without being aborted.
SiblingAfterRebaseNoAbort(c, out) ==
    IF out.kind = "ok"
        THEN Issue(c, "sibling_push",
                   Cmd("git push origin --force-with-lease", BranchName(c.cur.bead), c.cur.path))
    ELSE IF out.kind = "fail"
        THEN Record(c, RebaseSiblingResult(c.cur.bead, FALSE, "Rebase conflict: ", out.stderr))
    ELSE Record(c, RebaseSiblingResult(c.cur.bead, FALSE, "Rebase command failed: ", out.stderr))

\* Mutant: the push is issued whenever the rebase command ran.
SiblingAfterRebasePushesAnyway(c, out) ==
    IF out.kind \in {"ok", "fail"}
        THEN Issue(c, "sibling_push",
                   Cmd("git push origin --force-with-lease", BranchName(c.cur.bead), c.cur.path))
    ELSE Record(c, RebaseSiblingResult(c.cur.bead, FALSE, "Rebase command failed: ", out.stderr))

SiblingAfterRebase(c, out) ==
    IF out.kind = "ok"
        THEN Issue(c, "sibling_push",
                   Cmd("git push origin --force-with-lease", BranchName(c.cur.bead), c.cur.path))
    ELSE IF out.kind = "fail"
        THEN Issue([c EXCEPT !.stderr = out.stderr], "sibling_abort",
                   Cmd("git rebase --abort", <<>>, c.cur.path))
    ELSE Record(c, RebaseSiblingResult(c.cur.bead, FALSE, "Rebase command failed: ", out.stderr))

SiblingRebaseReturns(p, out) ==
    /\ p \in procs
    /\ call[p].pc = "sibling_rebase"
    /\ out \in InWorkspace(call[p].cur.path, {OutOk, OutFail(ErrConflict), OutSpawn})
    /\ call' = [call EXCEPT ![p] = SiblingAfterRebase(SiblingReturned(call[p], out), out)]
    /\ UNCHANGED <<dirs, branches, gitignore, store, procs>>

\* let _ = git rebase --abort: the outcome is dropped.
SiblingAfterAbort(c, out) ==
    Record(c, RebaseSiblingResult(c.cur.bead, FALSE, "Rebase conflict: ", c.stderr))

SiblingAbortReturns(p, out) ==
    /\ p \in procs
    /\ call[p].pc = "sibling_abort"
    /\ out \in InWorkspace(call[p].cur.path, {OutOk, OutFail(ErrOther), OutSpawn})
    /\ call' = [call EXCEPT ![p] = SiblingAfterAbort(SiblingReturned(call[p], out), out)]
    /\ UNCHANGED <<dirs, branches, gitignore, store, procs>>

\* Mutant: a rejected push is tried once more.
SiblingAfterPushRetriesOnce(c, out) ==
    IF out.kind = "ok"
        THEN Record(c, RebaseSiblingResult(c.cur.bead, TRUE, "", <<>>))
    ELSE IF out.kind = "fail" /\ Len(c.cur.outs) < 4
        THEN Issue(c, "sibling_push",
                   Cmd("git push origin --force-with-lease", BranchName(c.cur.bead), c.cur.path))
    ELSE IF out.kind = "fail"
        THEN Record(c, RebaseSiblingResult(c.cur.bead, FALSE, "Push failed: ", out.stderr))
    ELSE Record(c, RebaseSiblingResult(c.cur.bead, FALSE, "Push command failed: ", out.stderr))

SiblingAfterPush(c, out) ==
    IF out.kind = "ok"
        THEN Record(c, RebaseSiblingResult(c.cur.bead, TRUE, "", <<>>))
    ELSE IF out.kind = "fail"
        THEN Record(c, RebaseSiblingResult(c.cur.bead, FALSE, "Push failed: ", out.stderr))
    ELSE Record(c, RebaseSiblingResult(c.cur.bead, FALSE, "Push command failed: ", out.stderr))

SiblingPushReturns(p, out) ==
    /\ p \in procs
    /\ call[p].pc = "sibling_push"
    /\ out \in InWorkspace(call[p].cur.path, {OutOk, OutFail(ErrRejected), OutSpawn})
    /\ call' = [call EXCEPT ![p] = SiblingAfterPush(SiblingReturned(call[p], out), out)]
    /\ UNCHANGED <<dirs, branches, gitignore, store, procs>>


----------------------------------------------------------------------------
(* Probes: best-effort queries used by worktree_status and pr_status *)

\* A finished process and what it wrote to stdout.
Output(kind, stdout) ==
    [kind |-> kind, stderr |-> IF kind = "ok" THEN <<>> ELSE ErrOther, stdout |-> stdout]

\* str::split(sep): the parts between the separators, at least one part.
RECURSIVE Split(_, _)
Split(s, sep) ==
    IF s = <<>> THEN << <<>> >>
    ELSE LET rest == Split(Tail(s), sep)
         IN  IF Head(s) = sep
                 THEN << <<>> >> \o rest
                 ELSE << <<Head(s)>> \o Head(rest) >> \o Tail(rest)

\* Option::unwrap_or
UnwrapOr(opt, default) == IF opt.some THEN opt.v ELSE default

\* The largest i32.
MaxI32 == 2147483647

\* The decimal digits that occur in the texts.
Digits == {"0", "1", "2", "3"}

DigitValue(d) ==
    CASE d = "0" -> 0 [] d = "1" -> 1 [] d = "2" -> 2 [] d = "3" -> 3

\* The number a run of digits writes, most significant digit first.
RECURSIVE Decimal(_, _)
Decimal(ds, acc) ==
    IF ds = <<>> THEN acc ELSE Decimal(Tail(ds), 10 * acc + DigitValue(Head(ds)))

\* str::parse::<i32>().ok() on one part of a text: an optional sign and at
\* least one digit, nothing else, and a value that fits an i32.
Parse(part) ==
    LET signed == part # <<>> /\ Head(part) \in {"+", "-"}
        ds == IF signed THEN Tail(part) ELSE part
    IN  IF ds = <<>> \/ \E i \in 1..Len(ds) : ds[i] \notin Digits THEN None
        ELSE LET n == (IF signed /\ Head(part) = "-" THEN 0 - 1 ELSE 1) * Decimal(ds, 0)
             IN  IF n > MaxI32 \/ n < 0 - MaxI32 - 1 THEN None ELSE Some(n)

\* str::parse::<i32>().unwrap_or(0)
ParseOr0(part) == UnwrapOr(Parse(part), 0)

\* Mutant: master is tried before main.
BaseBranchesMasterFirst == <<"master", "main">>

\* for base in ["main", "master"]
BaseBranches == <<"main", "master">>

\* One round of the loop of get_ahead_behind_worktree: the counts when the
\* command succeeded and printed two tab-separated parts.
AheadBehind(out) ==
    IF out.kind = "ok"
        THEN LET parts == Split(out.stdout, "\t")
             IN  IF Len(parts) = 2
                     THEN Some([ahead |-> ParseOr0(parts[2]), behind |-> ParseOr0(parts[1])])
                     ELSE None
        ELSE None

\* check_worktree_dirty: Ok(o) => !o.stdout.is_empty(), Err(_) => false
check_worktree_dirty(out) == out.kind # "spawn" /\ out.stdout # <<>>

\* check_has_remote
check_has_remote(out) == out.kind # "spawn" /\ out.stdout # <<>>

\* check_branch_pushed
check_branch_pushed(out) == out.kind # "spawn" /\ out.stdout # <<>>

\* get_last_modified: the directory's mtime when its metadata can be read.
get_last_modified(metaOk) == IF metaOk THEN Some(<<"mtime">>) ELSE None

\* What `git rev-list --left-right --count` may print or how it may end.
RevListOutcomes ==
    {Output("ok", <<"2", "\t", "1">>), Output("ok", <<"x", "\t", "3">>),
     Output("ok", <<"1">>), Output("fail", <<>>), OutSpawn}

\* How `git status --porcelain`, `git remote` and `git ls-remote` may end:
\* with or without output, on a zero or a non-zero exit, or not started.
ProbeOutcomes ==
    {Output("ok", <<>>), Output("ok", <<"line">>),
     Output("fail", <<>>), Output("fail", <<"line">>), OutSpawn}

----------------------------------------------------------------------------
(* worktree_status *)

WorktreeStatusResponse(exists, path, branch, ahead, behind, dirty, last_modified) ==
    [kind |-> "status", code |-> 200, exists |-> exists, worktree_path |-> path,
     branch |-> branch, ahead |-> ahead, behind |-> behind, dirty |-> dirty,
     last_modified |-> last_modified]

\* The call of get_ahead_behind_worktree reaches the i-th base branch.
RevList(c, i) ==
    Issue([c EXCEPT !.local.base = i], "status_rev_list",
          Cmd("git rev-list --left-right --count",
              <<BaseBranches[i], "...">> \o BranchName(c.bead), RootPath(c.repo)))

\* get_ahead_behind_worktree has returned `ab`; check_worktree_dirty starts.
StatusDirty(c, ab) ==
    Issue([c EXCEPT !.local.ahead = ab.ahead, !.local.behind = ab.behind], "status_dirty",
          Cmd("git status --porcelain", <<>>, WorktreePath(c.repo, BranchName(c.bead))))

\* Mutant: the probes run whether or not the workspace directory exists.
StatusPrefixAlwaysProbes(c) ==
    RevList([c EXCEPT !.local = [base |-> 1, ahead |-> 0, behind |-> 0]], 1)

\* worktree_status after the repository check, up to the first subprocess.
StatusPrefix(c) ==
    IF ~PathExists(c.repo, BranchName(c.bead))
        THEN Return(c, WorktreeStatusResponse(FALSE, None, None, None, None, None, None))
        ELSE RevList([c EXCEPT !.local = [base |-> 1, ahead |-> 0, behind |-> 0]], 1)

StatusBegin(p, repo, bead) ==
    /\ Free(p)
    /\ call' = [call EXCEPT ![p] =
          IF ~RepoExists(repo)
              THEN Return(NewCall(p, "status", repo, bead), BadRepo(repo))
              ELSE StatusPrefix(NewCall(p, "status", repo, bead))]
    /\ UNCHANGED <<dirs, branches, gitignore, store, procs>>

\* The loop of get_ahead_behind_worktree after one rev-list has returned.
StatusAfterRevList(c, out) ==
    LET ab == AheadBehind(out)
    IN  IF ab.some THEN StatusDirty(c, ab.v)
        ELSE IF c.local.base < Len(BaseBranches) THEN RevList(c, c.local.base + 1)
        ELSE StatusDirty(c, [ahead |-> 0, behind |-> 0])

StatusRevListReturns(p, out) ==
    /\ p \in procs
    /\ call[p].pc = "status_rev_list"
    /\ out \in Spawnable(call[p].repo, RevListOutcomes)
    /\ call' = [call EXCEPT ![p] = StatusAfterRevList(Returned(call[p], out), out)]
    /\ UNCHANGED <<dirs, branches, gitignore, store, procs>>

StatusAfterDirty(c, out, metaOk) ==
    LET branch == BranchName(c.bead)
    IN  Return(c, WorktreeStatusResponse(TRUE, Some(WorktreePath(c.repo, branch)), Some(branch),
                                         Some(c.local.ahead), Some(c.local.behind),
                                         Some(check_worktree_dirty(out)),
                                         get_last_modified(metaOk)))

StatusDirtyReturns(p, out, metaOk) ==
    /\ p \in procs
    /\ call[p].pc = "status_dirty"
    /\ out \in InWorkspace(WorktreePath(call[p].repo, BranchName(call[p].bead)), ProbeOutcomes)
    /\ call' = [call EXCEPT ![p] = StatusAfterDirty(Returned(call[p], out), out, metaOk)]
    /\ UNCHANGED <<dirs, branches, gitignore, store, procs>>

----------------------------------------------------------------------------
(* list_worktrees *)

ListWorktreesResponse(worktrees) ==
    [kind |-> "list", code |-> 200, worktrees |-> worktrees]

ListBegin(p, repo) ==
    /\ Free(p)
    /\ call' = [call EXCEPT ![p] =
          IF ~RepoExists(repo)
              THEN Return(NewCall(p, "list", repo, <<>>), BadRepo(repo))
              ELSE Issue(NewCall(p, "list", repo, <<>>), "list_list",
                         Cmd("git worktree list --porcelain", <<>>, RootPath(repo)))]
    /\ UNCHANGED <<dirs, branches, gitignore, store, procs>>

ListAfterList(c, out, output, scan) ==
    IF out.kind = "ok"
        THEN Return(c, ListWorktreesResponse(parse_worktree_list(output, c.repo, scan)))
    ELSE IF out.kind = "fail"
        THEN Return(c, ErrorResp(500, "Failed to list worktrees: ", out.stderr))
    ELSE Return(c, ErrorResp(500, "Failed to run git command: ", out.stderr))

ListListReturns(p, out) ==
    /\ p \in procs
    /\ call[p].pc = "list_list"
    /\ out \in Spawnable(call[p].repo, {OutOk, OutFail(ErrOther), OutSpawn})
    /\ \E output \in (IF out.kind = "ok" THEN Listings(call[p].repo) ELSE {<<>>}),
          scan \in (IF out.kind = "ok" THEN ScanOrders(call[p].repo) ELSE {<<>>}) :
          call' = [call EXCEPT ![p] = ListAfterList(Returned(call[p], out), out, output, scan)]
    /\ UNCHANGED <<dirs, branches, gitignore, store, procs>>

----------------------------------------------------------------------------
(* Output of the gh commands: what stdout holds, as serde_json sees it.    *)
(* kind "empty" is no output, "junk" text that is not JSON, "object" and   *)
(* "array" a JSON object (v: its fields, each present or not) and a JSON   *)
(* array (v: its elements).                                                *)

JsonText(kind, v) == [kind |-> kind, v |-> v]

\* String::to_lowercase on the PR states gh prints
ToLowercase(s) ==
    CASE s = "OPEN" -> "open"
      [] s = "MERGED" -> "merged"
      [] s = "CLOSED" -> "closed"
      [] s = "UNKNOWN" -> "unknown"
      [] OTHER -> s

----------------------------------------------------------------------------
(* parse_status_checks *)

ChecksStatus(total, passed, failed, pending, status) ==
    [total |-> total, passed |-> passed, failed |-> failed, pending |-> pending,
     status |-> status]

\* Mutant: every check is counted by its conclusion alone.
CheckBucketByConclusion(check) ==
    IF check.conclusion = "SUCCESS" THEN "passed"
    ELSE IF check.conclusion \in {"FAILURE", "ERROR"} THEN "failed"
    ELSE "pending"

\* The match on (status, conclusion) of one check.
CheckBucket(check) ==
    IF check.status \in {"QUEUED", "IN_PROGRESS"} THEN "pending"
    ELSE IF check.status = "COMPLETED"
        THEN (IF check.conclusion = "SUCCESS" THEN "passed"
              ELSE IF check.conclusion \in {"FAILURE", "CANCELLED", "TIMED_OUT", "ACTION_REQUIRED"}
                  THEN "failed"
              ELSE "pending")
    ELSE (IF check.conclusion = "SUCCESS" THEN "passed"
          ELSE IF check.conclusion \in {"FAILURE", "ERROR"} THEN "failed"
          ELSE "pending")

\* The loop over the checks: total and the three counters.
RECURSIVE TallyChecks(_, _)
TallyChecks(checks, acc) ==
    IF checks = <<>> THEN acc
    ELSE LET b == CheckBucket(Head(checks))
         IN  TallyChecks(Tail(checks), [acc EXCEPT !.total = @ + 1, ![b] = @ + 1])

\* Mutant: pending checks outrank failed ones.
OverallStatusPendingFirst(total, failed, pending) ==
    IF total = 0 THEN "success"
    ELSE IF pending > 0 THEN "pending"
    ELSE IF failed > 0 THEN "failure"
    ELSE "success"

\* let status = if total == 0 .. else if failed > 0 .. else if pending > 0 ..
OverallStatus(total, failed, pending) ==
    IF total = 0 THEN "success"
    ELSE IF failed > 0 THEN "failure"
    ELSE IF pending > 0 THEN "pending"
    ELSE "success"

\* Mutant: total counts only the checks that have finished.
parse_status_checks_total_finished(rollup) ==
    LET t == TallyChecks(IF rollup.kind = "array" THEN rollup.v ELSE <<>>,
                         [total |-> 0, passed |-> 0, failed |-> 0, pending |-> 0])
    IN  ChecksStatus(t.passed + t.failed, t.passed, t.failed, t.pending,
                     OverallStatus(t.total, t.failed, t.pending))

\* parse_status_checks(rollup): a rollup that is not an array has no checks.
parse_status_checks(rollup) ==
    LET t == TallyChecks(IF rollup.kind = "array" THEN rollup.v ELSE <<>>,
                         [total |-> 0, passed |-> 0, failed |-> 0, pending |-> 0])
    IN  ChecksStatus(t.total, t.passed, t.failed, t.pending,
                     OverallStatus(t.total, t.failed, t.pending))

----------------------------------------------------------------------------
(* pr_status *)

RateLimitInfo(remaining, limit, reset_at) ==
    [remaining |-> remaining, limit |-> limit, reset_at |-> reset_at]

\* get_rate_limit: the fields of the JSON value, the fallback otherwise.
get_rate_limit(out) ==
    IF out.kind = "ok" /\ out.stdout.kind \in {"object", "array"}
        THEN LET json == IF out.stdout.kind = "object" THEN out.stdout.v
                         ELSE [remaining |-> None, limit |-> None, reset |-> None]
             IN  RateLimitInfo(UnwrapOr(json.remaining, 0), UnwrapOr(json.limit, 5000),
                               [rfc3339 |-> UnwrapOr(json.reset, 0)])
        ELSE RateLimitInfo(-1, 5000, [rfc3339 |-> -1])

PrInfo(number, url, state, checks, mergeable) ==
    [number |-> number, url |-> url, state |-> state, checks |-> checks,
     mergeable |-> mergeable]

\* get_pr_info: the PR of the branch when `gh pr view` succeeds and prints
\* JSON, None otherwise.
get_pr_info(out) ==
    IF out.kind = "ok" /\ out.stdout.kind = "object"
        THEN LET json == out.stdout.v
             IN  Some(PrInfo(UnwrapOr(json.number, 0), UnwrapOr(json.url, <<>>),
                             ToLowercase(UnwrapOr(json.state, "UNKNOWN")),
                             parse_status_checks(json.statusCheckRollup),
                             UnwrapOr(json.mergeable, "UNKNOWN") = "MERGEABLE"))
        ELSE None

PrStatusResponse(has_remote, branch_pushed, pr, rate_limit) ==
    [kind |-> "pr_status", code |-> 200, has_remote |-> has_remote,
     branch_pushed |-> branch_pushed, pr |-> pr, rate_limit |-> rate_limit]

\* get_rate_limit starts.
PrRate(c) == Issue(c, "pr_rate", Cmd("gh api rate_limit", <<>>, RootPath(c.repo)))

PrStatusBegin(p, repo, bead) ==
    /\ Free(p)
    /\ call' = [call EXCEPT ![p] =
          IF ~RepoExists(repo)
              THEN Return(NewCall(p, "pr_status", repo, bead), BadRepo(repo))
              ELSE Issue([NewCall(p, "pr_status", repo, bead) EXCEPT
                              !.local = [has_remote |-> FALSE, branch_pushed |-> FALSE]],
                         "pr_remote", Cmd("git remote", <<>>, RootPath(repo)))]
    /\ UNCHANGED <<dirs, branches, gitignore, store, procs>>

\* Mutant: without a remote the response is sent at once, quota unknown.
PrStatusAfterRemoteSkipsRate(c, out) ==
    LET has == check_has_remote(out)
        c1 == [c EXCEPT !.local.has_remote = has]
    IN  IF has
            THEN Issue(c1, "pr_pushed",
                       Cmd("git ls-remote --heads origin", BranchName(c.bead), RootPath(c.repo)))
            ELSE Return(c1, PrStatusResponse(FALSE, FALSE, None,
                                             RateLimitInfo(-1, 5000, [rfc3339 |-> -1])))

\* check_has_remote has returned: the pushed-branch probe runs if has_remote,
\* else branch_pushed is false and the rate limit is queried.
PrStatusAfterRemote(c, out) ==
    LET has == check_has_remote(out)
        c1 == [c EXCEPT !.local.has_remote = has]
    IN  IF has
            THEN Issue(c1, "pr_pushed",
                       Cmd("git ls-remote --heads origin", BranchName(c.bead), RootPath(c.repo)))
            ELSE PrRate(c1)

PrStatusRemoteReturns(p, out) ==
    /\ p \in procs
    /\ call[p].pc = "pr_remote"
    /\ out \in Spawnable(call[p].repo, ProbeOutcomes)
    /\ call' = [call EXCEPT ![p] = PrStatusAfterRemote(Returned(call[p], out), out)]
    /\ UNCHANGED <<dirs, branches, gitignore, store, procs>>

PrStatusAfterPushed(c, out) ==
    PrRate([c EXCEPT !.local.branch_pushed = check_branch_pushed(out)])

PrStatusPushedReturns(p, out) ==
    /\ p \in procs
    /\ call[p].pc = "pr_pushed"
    /\ out \in Spawnable(call[p].repo, ProbeOutcomes)
    /\ call' = [call EXCEPT ![p] = PrStatusAfterPushed(Returned(call[p], out), out)]
    /\ UNCHANGED <<dirs, branches, gitignore, store, procs>>

\* Mutant: the PR is looked up whether or not the branch is pushed.
PrLookupWantedAlways(branch_pushed) == TRUE

\* let pr = if branch_pushed { get_pr_info(..) } else { None }
PrLookupWanted(branch_pushed) == branch_pushed

\* get_rate_limit has returned.
PrStatusAfterRate(c, out) ==
    LET c1 == [c EXCEPT !.local = [has_remote |-> c.local.has_remote,
                                   branch_pushed |-> c.local.branch_pushed,
                                   rate_limit |-> get_rate_limit(out)]]
    IN  IF PrLookupWanted(c1.local.branch_pushed)
            THEN Issue(c1, "pr_view", Cmd("gh pr view", BranchName(c.bead), RootPath(c.repo)))
            ELSE Return(c1, PrStatusResponse(c1.local.has_remote, c1.local.branch_pushed,
                                             None, c1.local.rate_limit))

\* What `gh api rate_limit --jq .rate` may print or how it may end.
RateOutcomes ==
    {Output("ok", JsonText("object", [remaining |-> Some(42), limit |-> Some(5000),
                                      reset |-> Some(1700)])),
     Output("ok", JsonText("object", [remaining |-> None, limit |-> None, reset |-> None])),
     Output("ok", JsonText("junk", <<>>)),
     Output("fail", JsonText("empty", <<>>)),
     OutSpawn}

PrStatusRateReturns(p, out) ==
    /\ p \in procs
    /\ call[p].pc = "pr_rate"
    /\ out \in Spawnable(call[p].repo, RateOutcomes)
    /\ call' = [call EXCEPT ![p] = PrStatusAfterRate(Returned(call[p], out), out)]
    /\ UNCHANGED <<dirs, branches, gitignore, store, procs>>

PrStatusAfterView(c, out) ==
    Return(c, PrStatusResponse(c.local.has_remote, c.local.branch_pushed,
                               get_pr_info(out), c.local.rate_limit))

Check(status, conclusion) == [status |-> status, conclusion |-> conclusion]

\* The URL of pull request n, split at the slashes that matter.
PrUrl(n) == <<"https://github.com/o/r/pull", "/", n>>

\* statusCheckRollup values `gh pr view` reports to pr_status.
ReviewRollups ==
    {JsonText("null", <<>>),
     JsonText("array", <<>>),
     JsonText("array", <<Check("IN_PROGRESS", "")>>),
     JsonText("array", <<Check("COMPLETED", "SUCCESS"), Check("QUEUED", ""),
                         Check("COMPLETED", "FAILURE")>>)}

\* What `gh pr view <branch> --json ...` may print or how it may end.
PrViewOutcomes ==
    {Output("ok", JsonText("object", [number |-> Some(3), url |-> Some(PrUrl("3")),
                                      state |-> st, mergeable |-> m,
                                      statusCheckRollup |-> r])) :
        st \in {Some("OPEN"), None}, m \in {Some("MERGEABLE"), Some("CONFLICTING")},
        r \in ReviewRollups}
    \cup {Output("ok", JsonText("junk", <<>>)), Output("fail", JsonText("empty", <<>>)),
          OutSpawn}

PrStatusViewReturns(p, out) ==
    /\ p \in procs
    /\ call[p].pc = "pr_view"
    /\ out \in Spawnable(call[p].repo, PrViewOutcomes)
    /\ call' = [call EXCEPT ![p] = PrStatusAfterView(Returned(call[p], out), out)]
    /\ UNCHANGED <<dirs, branches, gitignore, store, procs>>

----------------------------------------------------------------------------
(* create_pr *)

CreatePrResponse(code, success, pr_number, pr_url, error) ==
    [kind |-> "create_pr", code |-> code, success |-> success, pr_number |-> pr_number,
     pr_url |-> pr_url, error |-> error]

\* A merged pull request as `gh pr list --json number,title` prints it.
MergedPr(number, title) == [number |-> Some(number), title |-> Some(title)]

\* The merged pull requests the remote may hold for the branch of a request.
MergedLists ==
    {<<>>, <<MergedPr(7, "Fix badge")>>, <<MergedPr(9, "Redo"), MergedPr(7, "Fix badge")>>}

\* What `gh pr list --head <branch> --state merged` may print or how it may
\* end when the remote holds `merged`.
MergedCheckOutcomes(merged) ==
    {Output("ok", JsonText("array", merged)), Output("fail", JsonText("empty", <<>>)),
     OutSpawn}

\* Mutant: a merged PR is reported but does not stop the call.
FirstMergedPrIgnored(out) == None

\* The merged PR that makes create_pr fail: the first element when the
\* check succeeded and printed a non-empty JSON array.
FirstMergedPr(out) ==
    IF out.kind # "ok" THEN None
    ELSE IF out.stdout.kind = "empty" \/ (out.stdout.kind = "array" /\ out.stdout.v = <<>>)
        THEN None
    ELSE IF out.stdout.kind # "array" THEN None
    ELSE Some(Head(out.stdout.v))

\* format!("A merged PR already exists for this branch: #{} \"{}\". ...")
MergedPrMessage(pr) ==
    <<"A merged PR already exists for this branch: #", ToString(UnwrapOr(pr.number, 0)),
      " \"", UnwrapOr(pr.title, "Unknown"), "\". Clean up the worktree first.">>

\* Mutant: the text before the first '/' is parsed.
extract_pr_number_from_first(url) ==
    LET parts == Split(url, "/")
    IN  Parse(parts[1])

\* extract_pr_number_from_url: url.rsplit('/').next().and_then(|s| s.parse().ok())
extract_pr_number_from_url(url) ==
    LET parts == Split(url, "/")
    IN  Parse(parts[Len(parts)])

\* `merged` is what the remote holds for the branch as the request arrives.
CreatePrBegin(p, repo, bead, title, merged) ==
    /\ Free(p)
    /\ call' = [call EXCEPT ![p] =
          IF ~RepoExists(repo)
              THEN Return(NewCall(p, "create_pr", repo, bead),
                          CreatePrResponse(400, FALSE, None, None,
                                           Some(<<"Repository path does not exist: ", repo>>)))
              ELSE Issue([NewCall(p, "create_pr", repo, bead) EXCEPT
                              !.local = [title |-> title, merged |-> merged]],
                         "createpr_check",
                         Cmd("gh pr list --state merged", <<"--head">> \o BranchName(bead),
                             RootPath(repo)))]
    /\ UNCHANGED <<dirs, branches, gitignore, store, procs>>

\* The merged-PR check has returned: conflict, or go on to create the PR.
CreatePrAfterCheck(c, out) ==
    LET pr == FirstMergedPr(out)
    IN  IF pr.some
            THEN Return(c, CreatePrResponse(409, FALSE, None, None, Some(MergedPrMessage(pr.v))))
            ELSE Issue(c, "createpr_create",
                       Cmd("gh pr create",
                           <<"--head">> \o BranchName(c.bead) \o <<"--title", c.local.title>>,
                           RootPath(c.repo)))

CreatePrCheckReturns(p, out) ==
    /\ p \in procs
    /\ call[p].pc = "createpr_check"
    /\ out \in Spawnable(call[p].repo, MergedCheckOutcomes(call[p].local.merged))
    /\ call' = [call EXCEPT ![p] = CreatePrAfterCheck(Returned(call[p], out), out)]
    /\ UNCHANGED <<dirs, branches, gitignore, store, procs>>

CreatePrAfterCreate(c, out) ==
    IF out.kind = "ok"
        THEN Return(c, CreatePrResponse(200, TRUE, extract_pr_number_from_url(out.stdout),
                                        Some(out.stdout), None))
    ELSE IF out.kind = "fail"
        THEN Return(c, CreatePrResponse(500, FALSE, None, None, Some(out.stderr)))
    ELSE Return(c, CreatePrResponse(500, FALSE, None, None,
                                    Some(<<"Failed to run gh command: ">> \o out.stderr)))

\* What `gh pr create` may print or how it may end.
PrCreateOutcomes ==
    {Output("ok", PrUrl("3")), Output("ok", <<"created">>), Output("fail", <<>>), OutSpawn}

CreatePrCreateReturns(p, out) ==
    /\ p \in procs
    /\ call[p].pc = "createpr_create"
    /\ out \in Spawnable(call[p].repo, PrCreateOutcomes)
    /\ call' = [call EXCEPT ![p] = CreatePrAfterCreate(Returned(call[p], out), out)]
    /\ UNCHANGED <<dirs, branches, gitignore, store, procs>>

----------------------------------------------------------------------------
(* merge_pr *)

MergePrResponse(code, success, merged, error) ==
    [kind |-> "merge_pr", code |-> code, success |-> success, merged |-> merged,
     error |-> error]

\* #[serde(default = "default_merge_method")]
default_merge_method == "squash"

\* The merge_method of the request: the default when the field is omitted.
MergeMethod(requested) == UnwrapOr(requested, default_merge_method)

\* Mutant: every request is merged with a merge commit.
MergeFlagFixed(method) == "--merge"

\* match request.merge_method.as_str()
MergeFlag(method) ==
    CASE method = "merge" -> "--merge"
      [] method = "rebase" -> "--rebase"
      [] OTHER -> "--squash"

MergePrBegin(p, repo, bead, requested) ==
    /\ Free(p)
    /\ call' = [call EXCEPT ![p] =
          IF ~RepoExists(repo)
              THEN Return(NewCall(p, "merge_pr", repo, bead),
                          MergePrResponse(400, FALSE, FALSE,
                                          Some(<<"Repository path does not exist: ", repo>>)))
              ELSE Issue([NewCall(p, "merge_pr", repo, bead) EXCEPT
                              !.local = [requested |-> requested]],
                         "merge_merge",
                         Cmd("gh pr merge",
                             BranchName(bead) \o <<MergeFlag(MergeMethod(requested))>>,
                             RootPath(repo)))]
    /\ UNCHANGED <<dirs, branches, gitignore, store, procs>>

MergePrAfterMerge(c, out) ==
    IF out.kind = "ok" THEN Return(c, MergePrResponse(200, TRUE, TRUE, None))
    ELSE IF out.kind = "fail"
        THEN Return(c, MergePrResponse(500, FALSE, FALSE, Some(out.stderr)))
    ELSE Return(c, MergePrResponse(500, FALSE, FALSE,
                                   Some(<<"Failed to run gh command: ">> \o out.stderr)))

MergePrMergeReturns(p, out) ==
    /\ p \in procs
    /\ call[p].pc = "merge_merge"
    /\ out \in Spawnable(call[p].repo, {OutOk, OutFail(ErrOther), OutSpawn})
    /\ call' = [call EXCEPT ![p] = MergePrAfterMerge(Returned(call[p], out), out)]
    /\ UNCHANGED <<dirs, branches, gitignore, store, procs>>

----------------------------------------------------------------------------
(* Epic statuses (server/src/routes/beads.rs) *)

\* Mutant: children that are all closed leave the epic as it is.
compute_epic_status_needs_inreview(child_statuses) ==
    IF child_statuses = <<>> THEN None
    ELSE IF \E i \in 1..Len(child_statuses) : child_statuses[i] = "in_progress"
        THEN Some("in_progress")
    ELSE IF /\ \A i \in 1..Len(child_statuses) : child_statuses[i] \in {"inreview", "closed"}
            /\ \E i \in 1..Len(child_statuses) : child_statuses[i] = "inreview"
        THEN Some("inreview")
    ELSE IF \A i \in 1..Len(child_statuses) : child_statuses[i] = "open"
        THEN Some("open")
    ELSE None

\* compute_epic_status_from_children
compute_epic_status_from_children(child_statuses) ==
    IF child_statuses = <<>> THEN None
    ELSE IF \E i \in 1..Len(child_statuses) : child_statuses[i] = "in_progress"
        THEN Some("in_progress")
    ELSE IF \A i \in 1..Len(child_statuses) : child_statuses[i] \in {"inreview", "closed"}
        THEN Some("inreview")
    ELSE IF \A i \in 1..Len(child_statuses) : child_statuses[i] = "open"
        THEN Some("open")
    ELSE None

\* One dependency of a bead.
Dependency(depends_on_id, dep_type) == [depends_on_id |-> depends_on_id, dep_type |-> dep_type]

\* A line of issues.jsonl that deserializes as a Bead.
Bead(id, status, issue_type, parent_id, dependencies) ==
    [kind |-> "rec", id |-> id, status |-> status, issue_type |-> issue_type,
     parent_id |-> parent_id, dependencies |-> dependencies]

\* The loop over contents.lines(): the lines that deserialize, in order.
ParseBeads(lines) == SelectSeq(lines, LAMBDA l : l.kind = "rec")

\* id.contains('.')
HasDot(id) == \E i \in 1..Len(id) : id[i] = "."

\* &bead.id[..dot_pos] with dot_pos = bead.id.rfind('.')
BeforeLastDot(id) ==
    LET dots == {i \in 1..Len(id) : id[i] = "."}
        dot_pos == CHOOSE i \in dots : \A j \in dots : j <= i
    IN  SubSeq(id, 1, dot_pos - 1)

\* First pass: the children a parent has by the parent-child dependencies
\* of the first n beads, one entry per dependency.
RECURSIVE ExplicitChildren(_, _, _)
ExplicitChildren(beads, parent, n) ==
    IF n = 0 THEN <<>>
    ELSE LET deps == beads[n].dependencies
             own == SelectSeq(deps, LAMBDA d : d.dep_type = "parent-child"
                                               /\ d.depends_on_id = parent)
         IN  ExplicitChildren(beads, parent, n - 1)
             \o [k \in 1..Len(own) |-> beads[n].id]

\* Second pass: the bead is a child of `parent` by the pattern of its id.
InferredFrom(beads, bead, parent) ==
    /\ ~bead.parent_id.some
    /\ HasDot(bead.id)
    /\ BeforeLastDot(bead.id) = parent
    /\ \E k \in 1..Len(beads) : beads[k].id = parent

\* parent_to_children[parent] after both passes over the first n beads.
RECURSIVE ChildrenOf(_, _, _)
ChildrenOf(beads, parent, n) ==
    IF n = 0 THEN ExplicitChildren(beads, parent, Len(beads))
    ELSE LET children == ChildrenOf(beads, parent, n - 1)
             contained == \E k \in 1..Len(children) : children[k] = beads[n].id
         IN  IF InferredFrom(beads, beads[n], parent) /\ ~contained
                 THEN Append(children, beads[n].id)
                 ELSE children

\* status_map.get(id): the status of the last bead with the id.
StatusOf(beads, id) ==
    LET hits == {k \in 1..Len(beads) : beads[k].id = id}
    IN  IF hits = {} THEN None
        ELSE Some(beads[CHOOSE k \in hits : \A j \in hits : j <= k].status)

\* The statuses of the children that have a record.
ChildStatuses(beads, children) ==
    LET found == SelectSeq(children, LAMBDA id : StatusOf(beads, id).some)
    IN  [k \in 1..Len(found) |-> StatusOf(beads, found[k]).v]

\* Mutant: closed epics are recomputed like the others.
EpicUpdateReopens(beads, bead) ==
    LET children == ChildrenOf(beads, bead.id, Len(beads))
        new == compute_epic_status_from_children(ChildStatuses(beads, children))
    IN  IF bead.issue_type # Some("epic") THEN None
        ELSE IF children = <<>> THEN None
        ELSE IF new.some /\ new.v # bead.status THEN new
        ELSE None

\* The body of the loop that finds the updates: the new status of the
\* bead, if it is an epic to update.
EpicUpdate(beads, bead) ==
    LET children == ChildrenOf(beads, bead.id, Len(beads))
        new == compute_epic_status_from_children(ChildStatuses(beads, children))
    IN  IF bead.issue_type # Some("epic") THEN None
        ELSE IF bead.status = "closed" THEN None
        ELSE IF children = <<>> THEN None
        ELSE IF new.some /\ new.v # bead.status THEN new
        ELSE None

\* epic_updates: (id, new status) of the epics to update, in file order.
EpicUpdates(beads) ==
    LET idx == SelectSeq([k \in 1..Len(beads) |-> k],
                         LAMBDA k : EpicUpdate(beads, beads[k]).some)
    IN  [j \in 1..Len(idx) |-> [id |-> beads[idx[j]].id,
                                 status |-> EpicUpdate(beads, beads[idx[j]]).v]]

\* The loop that applies the updates: each goes to the first bead with the id.
RECURSIVE ApplyUpdates(_, _)
ApplyUpdates(beads, updates) ==
    IF updates = <<>> THEN beads
    ELSE LET u == Head(updates)
             first == CHOOSE k \in 1..Len(beads) :
                          beads[k].id = u.id /\ \A j \in 1..(k - 1) : beads[j].id # u.id
         IN  ApplyUpdates([beads EXCEPT ![first].status = u.status], Tail(updates))

\* serde_json::to_string(bead): `dependencies` is skip_serializing.
Serialized(bead) == [bead EXCEPT !.dependencies = <<>>]

RecomputeResponse(ok, updated) == [kind |-> "recompute", ok |-> ok, updated |-> updated]

\* recompute_epic_statuses(issues_path): the file after the call, the
\* result, and whether the file was written.  createOk is whether
\* File::create succeeds.
recompute_epic_statuses(file, createOk) ==
    IF ~file.readable
        THEN [file |-> file, resp |-> RecomputeResponse(FALSE, <<>>), wrote |-> FALSE]
    ELSE LET beads == ParseBeads(file.lines)
             updates == EpicUpdates(beads)
             updated == [k \in 1..Len(updates) |-> updates[k].id]
             after == ApplyUpdates(beads, updates)
         IN  IF updated = <<>>
                 THEN [file |-> file, resp |-> RecomputeResponse(TRUE, <<>>), wrote |-> FALSE]
             ELSE IF ~createOk
                 THEN [file |-> file, resp |-> RecomputeResponse(FALSE, <<>>), wrote |-> FALSE]
             ELSE [file |-> [file EXCEPT !.lines =
                                [k \in 1..Len(after) |-> Serialized(after[k])]],
                   resp |-> RecomputeResponse(TRUE, updated), wrote |-> TRUE]

\* Most runs of recompute_epic_statuses in a behaviour.
MaxRuns == 3

\* A call of recompute_epic_statuses on /repo/.beads/issues.jsonl.  The
\* call keeps the number of the run, the file it found and whether it
\* wrote the file.
RecomputeEpicStatuses(p, createOk) ==
    /\ Free(p)
    /\ call[p].op = "recompute" => call[p].local.run < MaxRuns
    /\ LET r == recompute_epic_statuses(store, createOk)
           run == IF call[p].op = "recompute" THEN call[p].local.run + 1 ELSE 1
       IN  /\ store' = r.file
           /\ call' = [call EXCEPT ![p] =
                 Return([NewCall(p, "recompute", "/repo", <<>>) EXCEPT
                            !.local = [run |-> run, found |-> store, wrote |-> r.wrote]],
                        r.resp)]
    /\ UNCHANGED <<dirs, branches, gitignore, procs>>

----------------------------------------------------------------------------
(* Specifications *)

BranchNames == {BranchName(b) : b \in BeadIds}

BlankLine == [kind |-> "blank", id |-> <<>>, status |-> ""]
JunkLine == [kind |-> "junk", id |-> <<>>, status |-> ""]
RecordLine(bead, status) == [kind |-> "rec", id |-> bead, status |-> status]

\* A store file: a blank line, an unparsable line, then the records of the
\* beads that have one, in order.
RECURSIVE RecordLines(_, _)
RecordLines(f, i) ==
    IF i > Len(BeadOrder) THEN <<>>
    ELSE (IF f[i] = "absent" THEN <<>> ELSE <<RecordLine(BeadOrder[i], f[i])>>)
         \o RecordLines(f, i + 1)

StoreFile(f) == [readable |-> TRUE, lines |-> <<BlankLine, JunkLine>> \o RecordLines(f, 1)]

Unreadable == [readable |-> FALSE, lines |-> <<>>]

StoreFiles(statuses) ==
    {StoreFile(f) : f \in [1..Len(BeadOrder) -> statuses \cup {"absent"}]} \cup {Unreadable}

InitCalls(n) ==
    /\ procs = 1..n
    /\ call = [p \in Procs |-> IdleCall]

\* The beads of the lifecycle requests.
LifecycleBeads == {<<"A">>, <<"B">>}

\* Worktree lifecycle, one request at a time.
InitWorktree ==
    /\ dirs \in SUBSET {BranchName(b) : b \in LifecycleBeads}
    /\ branches \in SUBSET {BranchName(b) : b \in LifecycleBeads}
    /\ gitignore \in BOOLEAN
    /\ store \in {Unreadable, StoreFile(<<"inreview", "in_progress", "absent">>)}
    /\ InitCalls(1)

NextWorktree ==
    \/ \E p \in Procs, repo \in RepoPaths, bead \in LifecycleBeads, ioOk, mkdirOk \in BOOLEAN :
          CreateBegin(p, repo, bead, ioOk, mkdirOk)
    \/ \E p \in Procs, out \in {OutOk, OutFail(ErrAlreadyExists), OutFail(ErrOther), OutSpawn} :
          CreateAddNewReturns(p, out)
    \/ \E p \in Procs, out \in {OutOk, OutFail(ErrOther), OutSpawn} :
          CreateAddExistingReturns(p, out)
    \/ \E p \in Procs, repo \in RepoPaths, bead \in LifecycleBeads : DeleteBegin(p, repo, bead)
    \/ \E p \in Procs, out \in {OutOk, OutFail(ErrDirty), OutFail(ErrOther), OutSpawn} :
          DeleteRemoveReturns(p, out)
    \/ \E p \in Procs, out \in {OutOk, OutFail(ErrOther), OutSpawn} :
          DeleteForceReturns(p, out)
    \/ \E p \in Procs, out \in {OutOk, OutFail(ErrOther), OutSpawn} :
          DeleteBranchReturns(p, out)
    \/ \E p \in Procs, out \in {OutOk, OutFail(ErrOther), OutSpawn} :
          DeleteCloseReturns(p, out)

SpecWorktree == InitWorktree /\ [][NextWorktree]_vars

\* Sibling rebase batches, one request at a time.
InitRebase ==
    /\ dirs \in SUBSET BranchNames
    /\ branches = dirs
    /\ gitignore = TRUE
    /\ store \in StoreFiles({"inreview", "in_progress"})
    /\ InitCalls(1)

\* The excluded bead of a batch: one that has a worktree, one that has none.
ExcludeIds == {<<"B">>, <<"Z">>}

Outs == {OutOk, OutFail(ErrOther), OutFail(ErrConflict), OutFail(ErrRejected), OutSpawn}

NextRebase ==
    \/ \E p \in Procs, repo \in RepoPaths, exclude \in ExcludeIds : RebaseBegin(p, repo, exclude)
    \/ \E p \in Procs, out \in Outs : RebaseListReturns(p, out)
    \/ \E p \in Procs, out \in Outs : RebaseRootFetchReturns(p, out)
    \/ \E p \in Procs, out \in Outs : SiblingFetchReturns(p, out)
    \/ \E p \in Procs, out \in Outs : SiblingRebaseReturns(p, out)
    \/ \E p \in Procs, out \in Outs : SiblingAbortReturns(p, out)
    \/ \E p \in Procs, out \in Outs : SiblingPushReturns(p, out)

SpecRebase == InitRebase /\ [][NextRebase]_vars

\* Status, listing and pull-request requests, one request at a time.
InitReview ==
    /\ dirs \in SUBSET {BranchName(b) : b \in LifecycleBeads}
    /\ branches = dirs
    /\ gitignore \in BOOLEAN
    /\ store = StoreFile(<<"inreview", "in_progress", "absent">>)
    /\ InitCalls(1)

\* The merge_method field of a merge request: omitted, or any string.
MergeMethods == {None, Some("merge"), Some("squash"), Some("rebase"), Some("fast-forward")}

PrTitles == {"Fix badge"}

NextReview ==
    \/ \E p \in Procs, repo \in RepoPaths, bead \in LifecycleBeads : StatusBegin(p, repo, bead)
    \/ \E p \in Procs, out \in RevListOutcomes : StatusRevListReturns(p, out)
    \/ \E p \in Procs, out \in ProbeOutcomes, metaOk \in BOOLEAN : StatusDirtyReturns(p, out, metaOk)
    \/ \E p \in Procs, repo \in RepoPaths : ListBegin(p, repo)
    \/ \E p \in Procs, out \in {OutOk, OutFail(ErrOther), OutSpawn} : ListListReturns(p, out)
    \/ \E p \in Procs, repo \in RepoPaths, bead \in LifecycleBeads : PrStatusBegin(p, repo, bead)
    \/ \E p \in Procs, out \in ProbeOutcomes : PrStatusRemoteReturns(p, out)
    \/ \E p \in Procs, out \in ProbeOutcomes : PrStatusPushedReturns(p, out)
    \/ \E p \in Procs, out \in RateOutcomes : PrStatusRateReturns(p, out)
    \/ \E p \in Procs, out \in PrViewOutcomes : PrStatusViewReturns(p, out)
    \/ \E p \in Procs, repo \in RepoPaths, bead \in LifecycleBeads,
          title \in PrTitles, merged \in MergedLists :
          CreatePrBegin(p, repo, bead, title, merged)
    \/ \E p \in Procs, merged \in MergedLists :
          \E out \in MergedCheckOutcomes(merged) : CreatePrCheckReturns(p, out)
    \/ \E p \in Procs, out \in PrCreateOutcomes : CreatePrCreateReturns(p, out)
    \/ \E p \in Procs, repo \in RepoPaths, bead \in LifecycleBeads, requested \in MergeMethods :
          MergePrBegin(p, repo, bead, requested)
    \/ \E p \in Procs, out \in {OutOk, OutFail(ErrOther), OutSpawn} : MergePrMergeReturns(p, out)

SpecReview == InitReview /\ [][NextReview]_vars

\* Every operation of the service, one request at a time.
InitAll ==
    /\ dirs \in SUBSET {BranchName(b) : b \in LifecycleBeads}
    /\ branches = dirs
    /\ gitignore = TRUE
    /\ store = StoreFile(<<"inreview", "in_progress", "absent">>)
    /\ InitCalls(1)

\* The requests of the combined specification are about one bead.
OneBead == {<<"A">>}

NextAll ==
    \/ \E p \in Procs, repo \in RepoPaths, bead \in OneBead, mkdirOk \in BOOLEAN :
          CreateBegin(p, repo, bead, TRUE, mkdirOk)
    \/ \E p \in Procs, out \in {OutOk, OutFail(ErrAlreadyExists), OutFail(ErrOther), OutSpawn} :
          CreateAddNewReturns(p, out)
    \/ \E p \in Procs, out \in {OutOk, OutFail(ErrOther), OutSpawn} :
          CreateAddExistingReturns(p, out)
    \/ \E p \in Procs, repo \in RepoPaths, bead \in OneBead : DeleteBegin(p, repo, bead)
    \/ \E p \in Procs, out \in {OutOk, OutFail(ErrDirty), OutFail(ErrOther), OutSpawn} :
          DeleteRemoveReturns(p, out)
    \/ \E p \in Procs, out \in {OutOk, OutFail(ErrOther), OutSpawn} :
          DeleteForceReturns(p, out)
    \/ \E p \in Procs, out \in {OutOk, OutFail(ErrOther), OutSpawn} :
          DeleteBranchReturns(p, out)
    \/ \E p \in Procs, out \in {OutOk, OutFail(ErrOther), OutSpawn} :
          DeleteCloseReturns(p, out)
    \/ \E p \in Procs, repo \in RepoPaths : RebaseBegin(p, repo, <<"B">>)
    \/ \E p \in Procs, out \in Outs : RebaseListReturns(p, out)
    \/ \E p \in Procs, out \in Outs : RebaseRootFetchReturns(p, out)
    \/ \E p \in Procs, out \in Outs : SiblingFetchReturns(p, out)
    \/ \E p \in Procs, out \in Outs : SiblingRebaseReturns(p, out)
    \/ \E p \in Procs, out \in Outs : SiblingAbortReturns(p, out)
    \/ \E p \in Procs, out \in Outs : SiblingPushReturns(p, out)
    \/ \E p \in Procs, repo \in RepoPaths, bead \in OneBead : StatusBegin(p, repo, bead)
    \/ \E p \in Procs, out \in RevListOutcomes : StatusRevListReturns(p, out)
    \/ \E p \in Procs, out \in ProbeOutcomes : StatusDirtyReturns(p, out, TRUE)
    \/ \E p \in Procs, repo \in RepoPaths : ListBegin(p, repo)
    \/ \E p \in Procs, out \in {OutOk, OutFail(ErrOther), OutSpawn} : ListListReturns(p, out)
    \/ \E p \in Procs, repo \in RepoPaths, bead \in OneBead : PrStatusBegin(p, repo, bead)
    \/ \E p \in Procs, out \in ProbeOutcomes : PrStatusRemoteReturns(p, out)
    \/ \E p \in Procs, out \in ProbeOutcomes : PrStatusPushedReturns(p, out)
    \/ \E p \in Procs, out \in RateOutcomes : PrStatusRateReturns(p, out)
    \/ \E p \in Procs, out \in PrViewOutcomes : PrStatusViewReturns(p, out)
    \/ \E p \in Procs, repo \in RepoPaths, bead \in OneBead, merged \in MergedLists :
          CreatePrBegin(p, repo, bead, "Fix badge", merged)
    \/ \E p \in Procs, merged \in MergedLists :
          \E out \in MergedCheckOutcomes(merged) : CreatePrCheckReturns(p, out)
    \/ \E p \in Procs, out \in PrCreateOutcomes : CreatePrCreateReturns(p, out)
    \/ \E p \in Procs, repo \in RepoPaths, bead \in OneBead, requested \in MergeMethods :
          MergePrBegin(p, repo, bead, requested)
    \/ \E p \in Procs, out \in {OutOk, OutFail(ErrOther), OutSpawn} : MergePrMergeReturns(p, out)

SpecAll == InitAll /\ [][NextAll]_vars

\* One create request per handler.
CreateOnce(p, bead, ioOk, mkdirOk) ==
    /\ call[p].pc = "idle"
    /\ CreateBegin(p, "/repo", bead, ioOk, mkdirOk)

\* Two create requests in flight at once, on a repository with no
\* workspace and no branch; the tool runs the commands one after another.
InitCreateRace ==
    /\ dirs = {}
    /\ branches = {}
    /\ gitignore \in BOOLEAN
    /\ store = Unreadable
    /\ InitCalls(2)

NextCreateRace ==
    \/ \E p \in Procs, bead \in LifecycleBeads, ioOk, mkdirOk \in BOOLEAN :
          CreateOnce(p, bead, ioOk, mkdirOk)
    \/ \E p \in Procs, out \in {OutOk, OutFail(ErrAlreadyExists), OutFail(ErrOther), OutSpawn} :
          CreateAddNewReturns(p, out)
    \/ \E p \in Procs, out \in {OutOk, OutFail(ErrOther), OutSpawn} :
          CreateAddExistingReturns(p, out)

SpecCreateRace == InitCreateRace /\ [][NextCreateRace]_vars

\* bd_command with the arguments update <bead> --status <status>, run in
\* /repo: the tool rewrites the record of the bead.
BdCommandUpdate(bead, status) ==
    /\ store.readable
    /\ RecordIndex(store.lines, bead) # 0
    /\ store' = Updated(store, bead, status)
    /\ UNCHANGED <<dirs, branches, gitignore, procs, call>>

\* One batch, by the first handler.
BatchOnce(p, exclude) ==
    /\ p = 1
    /\ call[p].pc = "idle"
    /\ RebaseBegin(p, "/repo", exclude)

\* One delete request, by the second handler.
DeleteOnce(p, bead) ==
    /\ p = 2
    /\ call[p].pc = "idle"
    /\ DeleteBegin(p, "/repo", bead)

\* The listing of the batch is the one of a tool that reports the two
\* workspaces, each on its own branch.
RebaseListsBoth(p, out) ==
    /\ RebaseListReturns(p, out)
    /\ out.kind = "ok" =>
          call'[p].worktrees =
              [i \in 1..2 |-> WorktreeEntry(WorktreePath("/repo", BranchName(BeadOrder[i])),
                                            BranchName(BeadOrder[i]))]

\* The statuses a task is moved to while a batch runs.
MovedTo == {"in_progress"}

\* A batch of sibling rebases while a workspace is deleted and the statuses
\* of the tasks are changed.
InitBatchRace ==
    /\ dirs = {BranchName(b) : b \in LifecycleBeads}
    /\ branches = dirs
    /\ gitignore = TRUE
    /\ store = StoreFile(<<"inreview", "inreview", "absent">>)
    /\ InitCalls(2)

NextBatchRace ==
    \/ \E p \in Procs : BatchOnce(p, <<"C">>)
    \/ \E p \in Procs, out \in {OutOk, OutFail(ErrOther), OutSpawn} : RebaseListsBoth(p, out)
    \/ \E p \in Procs, out \in {OutOk, OutFail(ErrOther), OutSpawn} :
          RebaseRootFetchReturns(p, out)
    \/ \E p \in Procs, out \in {OutOk, OutFail(ErrOther), OutSpawn} : SiblingFetchReturns(p, out)
    \/ \E p \in Procs, out \in {OutOk, OutFail(ErrConflict), OutSpawn} :
          SiblingRebaseReturns(p, out)
    \/ \E p \in Procs, out \in {OutOk, OutFail(ErrOther), OutSpawn} : SiblingAbortReturns(p, out)
    \/ \E p \in Procs, out \in {OutOk, OutFail(ErrRejected), OutSpawn} :
          SiblingPushReturns(p, out)
    \/ \E p \in Procs, bead \in LifecycleBeads : DeleteOnce(p, bead)
    \/ \E p \in Procs, out \in {OutOk, OutFail(ErrDirty), OutFail(ErrOther), OutSpawn} :
          DeleteRemoveReturns(p, out)
    \/ \E p \in Procs, out \in {OutOk, OutFail(ErrOther), OutSpawn} :
          DeleteForceReturns(p, out)
    \/ \E p \in Procs, out \in {OutOk, OutFail(ErrOther), OutSpawn} :
          DeleteBranchReturns(p, out)
    \/ \E p \in Procs, out \in {OutOk, OutFail(ErrOther), OutSpawn} :
          DeleteCloseReturns(p, out)
    \/ \E bead \in LifecycleBeads, status \in MovedTo : BdCommandUpdate(bead, status)

SpecBatchRace == InitBatchRace /\ [][NextBatchRace]_vars

\* The beads of the record files: an id, one of its sub-items and one of
\* the sub-items of that.
EpicIds == << <<"E">>, <<"E", ".", "1">>, <<"E", ".", "1", ".", "1">> >>

BeadStatuses == {"open", "in_progress", "inreview", "closed"}

IssueTypes == {Some("epic"), Some("task")}

\* The dependencies the last bead may declare.
DependencyInputs ==
    {<<>>,
     <<Dependency(EpicIds[1], "parent-child")>>,
     <<Dependency(EpicIds[2], "parent-child")>>,
     <<Dependency(EpicIds[1], "blocks")>>}

\* Record files: an unparsable line, then the three beads with any
\* statuses and types; the sub-items with or without a parent_id.
EpicFiles ==
    {[readable |-> TRUE,
      lines |-> <<JunkLine,
                  Bead(EpicIds[1], st[1], ty[1], None, <<>>),
                  Bead(EpicIds[2], st[2], ty[2], pid[2], <<>>),
                  Bead(EpicIds[3], st[3], ty[3], pid[3], deps)>>] :
        st \in [1..3 -> BeadStatuses], ty \in [1..3 -> IssueTypes],
        pid \in [2..3 -> {None, Some(EpicIds[1])}], deps \in DependencyInputs}

\* Runs of recompute_epic_statuses on a record file, nothing else writing it.
InitEpics ==
    /\ dirs = {}
    /\ branches = {}
    /\ gitignore = TRUE
    /\ store \in EpicFiles \cup {Unreadable}
    /\ InitCalls(1)

NextEpics ==
    \E p \in Procs, createOk \in BOOLEAN : RecomputeEpicStatuses(p, createOk)

SpecEpics == InitEpics /\ [][NextEpics]_vars

----------------------------------------------------------------------------
(* Pure functions: Init draws an input, the action applies the function.   *)

\* Longest branch name, in tokens, given to extract_bead_id.
MaxBranchLen == 3

\* Longest list of checks given to parse_status_checks.
MaxChecks == 3

BranchTokens == {"bd-", "A", "main", "feature/"}

\* Branch names of at most MaxBranchLen tokens.
BranchInputs == UNION {[1..n -> BranchTokens] : n \in 0..MaxBranchLen}

CheckEntries ==
    {Check(s, c) : s \in {"QUEUED", "COMPLETED", "PENDING"},
                   c \in {"", "SUCCESS", "FAILURE", "CANCELLED", "ERROR"}}

\* statusCheckRollup values: null, or an array of at most MaxChecks checks.
RollupInputs ==
    {JsonText("null", <<>>)}
    \cup {JsonText("array", items) : items \in UNION {[1..n -> CheckEntries] : n \in 0..MaxChecks}}

\* Longest list of checks drawn from every status and conclusion.
MaxBucketChecks == 2

\* Checks of every status and conclusion the match tells apart, of two it
\* does not, and of absent fields ("").
BucketEntries ==
    {Check(st, c) : st \in {"", "QUEUED", "IN_PROGRESS", "COMPLETED", "PENDING"},
                    c \in {"", "SUCCESS", "FAILURE", "CANCELLED", "TIMED_OUT",
                           "ACTION_REQUIRED", "ERROR", "NEUTRAL"}}

BucketInputs ==
    {JsonText("array", items) :
        items \in UNION {[1..n -> BucketEntries] : n \in 1..MaxBucketChecks}}

\* Longest list of child statuses given to compute_epic_status_from_children.
MaxChildren == 3

\* Lists of at most MaxChildren child statuses.
ChildStatusInputs ==
    UNION {[1..n -> {"open", "in_progress", "inreview", "closed", "blocked"}] :
              n \in 0..MaxChildren}

\* The function `f` is about to be applied to `input`.
Pending(f, input) ==
    [p \in Procs |-> IF p = 1 THEN [IdleCall EXCEPT !.op = f, !.local = [input |-> input]]
                     ELSE IdleCall]

\* Longest issue store, in lines, given to get_bead_status.
MaxLines == 3

\* A line that is JSON but does not deserialize as BeadStatus: no status.
PartialLine(bead) == [kind |-> "partial", id |-> bead, status |-> ""]

\* The lines an issue store may hold.
StoreLineInputs ==
    {BlankLine, JunkLine, PartialLine(<<"A">>)}
    \cup {RecordLine(b, st) : b \in {<<"A">>, <<"B">>}, st \in {"inreview", "open"}}

\* Issue stores of at most MaxLines lines, and the file that cannot be read.
StoreInputs ==
    {[readable |-> TRUE, lines |-> ls] :
        ls \in UNION {[1..n -> StoreLineInputs] : n \in 0..MaxLines}}
    \cup {Unreadable}

\* Longest URL, in tokens, given to extract_pr_number_from_url.
MaxUrlLen == 4

UrlTokens == {"/", "1", "2", "-", "pull"}

\* URLs of at most MaxUrlLen tokens.
UrlInputs == UNION {[1..n -> UrlTokens] : n \in 0..MaxUrlLen}

\* Directory names under the workspace root: the workspaces of the tasks
\* "A", "bd-A" and "B", and a directory that is no workspace.
ScanNames == {<<"bd-", "A">>, <<"bd-", "bd-", "A">>, <<"bd-", "B">>, <<"tmp">>}

\* The workspaces in the order the tool lists them.
ToolOrder == << <<"bd-", "A">>, <<"bd-", "bd-", "A">>, <<"bd-", "B">> >>

\* The porcelain lines of the worktree `name`: on the branch of its own
\* name, on another branch, or detached.
ToolEntry(repo, name, kind) ==
    <<(<<"worktree ">> \o WorktreePath(repo, name)), <<"HEAD 0000">>>>
    \o (CASE kind = "own" -> << <<"branch ", "refs/heads/">> \o name >>
          [] kind = "feature" -> << <<"branch ", "refs/heads/", "feature">> >>
          [] OTHER -> << <<"detached">> >>)
    \o << <<>> >>

RECURSIVE ToolLines(_, _, _)
ToolLines(repo, f, i) ==
    IF i > Len(ToolOrder) THEN <<>>
    ELSE (IF f[i] = "unlisted" THEN <<>> ELSE ToolEntry(repo, ToolOrder[i], f[i]))
         \o ToolLines(repo, f, i + 1)

\* What the tool reports about each workspace of ToolOrder.
ToolReports == [1..Len(ToolOrder) -> {"unlisted", "own", "feature", "detached"}]

\* The output of `git worktree list --porcelain` for the reports f.
ToolOutput(repo, f) == PorcelainEntry(RootPath(repo), "main", 1) \o ToolLines(repo, f, 1)

InitFunctions ==
    /\ branches = {}
    /\ gitignore = TRUE
    /\ procs = 1..1
    /\ \/ /\ dirs \in SUBSET ScanNames
          /\ store = Unreadable
          /\ \E f \in ToolReports, scan \in ScanOrders("/repo") :
                call = Pending("parse_worktree_list",
                               [output |-> ToolOutput("/repo", f), scan |-> scan, reports |-> f])
       \/ /\ dirs = {}
          /\ store \in StoreInputs
          /\ \E repo \in {"/repo", "/missing"}, bead \in {<<"A">>, <<"B">>} :
                call = Pending("get_bead_status", [repo |-> repo, bead |-> bead])
       \/ /\ dirs = {}
          /\ store = Unreadable
          /\ \/ \E branch \in BranchInputs : call = Pending("extract_bead_id", branch)
             \/ \E rollup \in RollupInputs \cup BucketInputs :
                   call = Pending("parse_status_checks", rollup)
             \/ \E url \in UrlInputs : call = Pending("extract_pr_number_from_url", url)
             \/ \E statuses \in ChildStatusInputs :
                   call = Pending("compute_epic_status_from_children", statuses)

ApplyExtractBeadId(p) ==
    /\ p \in procs
    /\ call[p].pc = "idle"
    /\ call[p].op = "extract_bead_id"
    /\ call' = [call EXCEPT ![p] = Return(call[p], extract_bead_id(call[p].local.input))]
    /\ UNCHANGED <<dirs, branches, gitignore, store, procs>>

ApplyParseStatusChecks(p) ==
    /\ p \in procs
    /\ call[p].pc = "idle"
    /\ call[p].op = "parse_status_checks"
    /\ call' = [call EXCEPT ![p] = Return(call[p], parse_status_checks(call[p].local.input))]
    /\ UNCHANGED <<dirs, branches, gitignore, store, procs>>

ApplyGetBeadStatus(p) ==
    /\ p \in procs
    /\ call[p].pc = "idle"
    /\ call[p].op = "get_bead_status"
    /\ call' = [call EXCEPT ![p] =
          Return(call[p], get_bead_status(call[p].local.input.repo, call[p].local.input.bead))]
    /\ UNCHANGED <<dirs, branches, gitignore, store, procs>>

ApplyExtractPrNumber(p) ==
    /\ p \in procs
    /\ call[p].pc = "idle"
    /\ call[p].op = "extract_pr_number_from_url"
    /\ call' = [call EXCEPT ![p] =
          Return(call[p], extract_pr_number_from_url(call[p].local.input))]
    /\ UNCHANGED <<dirs, branches, gitignore, store, procs>>

ApplyParseWorktreeList(p) ==
    /\ p \in procs
    /\ call[p].pc = "idle"
    /\ call[p].op = "parse_worktree_list"
    /\ call' = [call EXCEPT ![p] =
          Return(call[p], parse_worktree_list(call[p].local.input.output, "/repo",
                                              call[p].local.input.scan))]
    /\ UNCHANGED <<dirs, branches, gitignore, store, procs>>

ApplyComputeEpicStatus(p) ==
    /\ p \in procs
    /\ call[p].pc = "idle"
    /\ call[p].op = "compute_epic_status_from_children"
    /\ call' = [call EXCEPT ![p] =
          Return(call[p], compute_epic_status_from_children(call[p].local.input))]
    /\ UNCHANGED <<dirs, branches, gitignore, store, procs>>

NextFunctions ==
    \/ \E p \in Procs : ApplyExtractBeadId(p)
    \/ \E p \in Procs : ApplyParseStatusChecks(p)
    \/ \E p \in Procs : ApplyGetBeadStatus(p)
    \/ \E p \in Procs : ApplyExtractPrNumber(p)
    \/ \E p \in Procs : ApplyParseWorktreeList(p)
    \/ \E p \in Procs : ApplyComputeEpicStatus(p)

SpecFunctions == InitFunctions /\ [][NextFunctions]_vars


----------------------------------------------------------------------------
(* Properties: vocabulary *)

IsSubprocess(e) == e.cmd # "get_bead_status"
IsLookup(e) == e.cmd = "get_bead_status"

\* The subprocesses a call has spawned, and its reads of the issue store.
Subprocesses(c) == SelectSeq(c.trace, IsSubprocess)
Lookups(c) == SelectSeq(c.trace, IsLookup)

\* The siblings of a batch: the listed entries that carry a bead id other
\* than the excluded one, in listing order.
ListedSiblings(c) ==
    SelectSeq(c.worktrees, LAMBDA w : w.bead_id.some /\ w.bead_id.v # c.bead)

InReview(status) == status.some /\ status.v = "inreview"

\* The bead ids of the first n siblings whose looked-up status is not
\* "inreview", in order.
RECURSIVE NotInReview(_, _, _)
NotInReview(S, L, n) ==
    IF n = 0 THEN <<>>
    ELSE NotInReview(S, L, n - 1)
         \o (IF InReview(L[n].status) THEN <<>> ELSE <<S[n].bead_id.v>>)

WorkspaceCommands ==
    {"git fetch origin", "git rebase origin/main", "git rebase --abort",
     "git push origin --force-with-lease"}

RootFetchDone(c) == c.op = "rebase" /\ Len(c.outs) >= 2
RootFetchOk(c) == RootFetchDone(c) /\ c.outs[2].kind = "ok"

----------------------------------------------------------------------------
(* C1: a sibling is attempted only when the status read for it is exactly  *)
(* "inreview".  Siblings are looked up in listing order; for a sibling     *)
(* whose lookup gave any other status or none (no record, unreadable       *)
(* file) no fetch, rebase, rebase-abort or push runs in its workspace, and *)
(* the skip list is exactly the ids of those siblings, in order.           *)
C1_AttemptOnlyInReview ==
    \A p \in Procs :
        LET c == call[p]
            S == ListedSiblings(c)
            L == Lookups(c)
        IN  c.op = "rebase" =>
              /\ Len(L) <= Len(S)
              /\ \A k \in 1..Len(L) :
                    /\ L[k].arg = S[k].bead_id.v
                    /\ ~InReview(L[k].status) =>
                          \A i \in 1..Len(c.trace) :
                              ~(c.trace[i].cmd \in WorkspaceCommands
                                /\ c.trace[i].cwd = S[k].path)
              /\ c.skipped = NotInReview(S, L, Len(L))
              /\ \A i \in 1..Len(c.trace) :
                    (c.trace[i].cmd \in WorkspaceCommands
                     /\ c.trace[i].cwd # RootPath(c.repo)) =>
                        \E k \in 1..Len(L) :
                            S[k].path = c.trace[i].cwd /\ InReview(L[k].status)

\* A finished batch that skipped a sibling with a status other than
\* "inreview", skipped one with no status, and attempted another.
C1_Witness ==
    \E p \in Procs :
        LET c == call[p]
            L == Lookups(c)
        IN  /\ c.op = "rebase" /\ c.pc = "done" /\ c.resp.kind = "rebase"
            /\ Len(c.resp.results) >= 1
            /\ \E k \in 1..Len(L) : L[k].status = Some("in_progress")
            /\ \E k \in 1..Len(L) : L[k].status = None

(* C2: if the root fetch fails, by a non-zero exit or by a failure to      *)
(* spawn, the batch returns an error and nothing is done for any sibling:  *)
(* the trace holds the listing and the root fetch alone.                   *)
C2_RootFetchFailureAborts ==
    \A p \in Procs :
        LET c == call[p]
        IN  (RootFetchDone(c) /\ c.outs[2].kind # "ok") =>
               /\ c.pc = "done"
               /\ c.resp.kind = "error"
               /\ Len(c.trace) = 2

\* The verdict on a sibling from how its own subprocesses ended: success
\* exactly when the rebase and then the push exited with success.
SiblingSucceeded(outs) ==
    /\ Len(outs) = 3
    /\ outs[2].kind = "ok"
    /\ outs[3].kind = "ok"

(* C3: once the root fetch has succeeded a sibling's failure never aborts  *)
(* the batch.  A finished batch has a normal response covering every       *)
(* sibling; each step leaves the earlier results as they are and adds at   *)
(* most one, whose verdict is decided by the subprocesses of its own       *)
(* sibling whatever the other results are.                                 *)
C3_FailureIsolated ==
    [][\A p \in Procs :
          LET c == call[p]
              d == call'[p]
          IN  RootFetchOk(d) =>
                /\ d.pc = "done" =>
                      /\ d.resp.kind = "rebase"
                      /\ d.resp.code = 200
                      /\ d.resp.results = d.results
                      /\ Len(d.resp.results) + Len(d.resp.skipped) = Len(ListedSiblings(d))
                /\ (RootFetchDone(c) /\ c.pc # "done") =>
                      \/ d.results = c.results
                      \/ /\ Len(d.results) = Len(c.results) + 1
                         /\ SubSeq(d.results, 1, Len(c.results)) = c.results
                         /\ LET r == d.results[Len(d.results)]
                            IN  /\ r.bead_id = d.last.bead
                                /\ r.success = SiblingSucceeded(d.last.outs)
                                /\ r.error.some = ~r.success]_vars

\* A finished batch in which a sibling failed and a later one succeeded.
C3_Witness ==
    \E p \in Procs :
        LET c == call[p]
        IN  /\ RootFetchOk(c) /\ c.pc = "done" /\ c.resp.kind = "rebase"
            /\ \E i, j \in 1..Len(c.resp.results) :
                  /\ i < j
                  /\ ~c.resp.results[i].success
                  /\ c.resp.results[j].success

Count(seq, x) == Cardinality({i \in 1..Len(seq) : seq[i] = x})

(* C4: when a batch completes after a successful root fetch, every listed  *)
(* sibling is in exactly one output: per bead id, the entries listed with  *)
(* it are as many as its results plus its skips; it has results only if    *)
(* its status is "inreview" and skips only if it is not; the number of     *)
(* results is the number of siblings whose status is "inreview".           *)
C4_ResultsAndSkipsPartition ==
    \A p \in Procs :
        LET c == call[p]
            S == ListedSiblings(c)
            ids == [k \in 1..Len(S) |-> S[k].bead_id.v]
            done == [k \in 1..Len(c.resp.results) |-> c.resp.results[k].bead_id]
        IN  (RootFetchOk(c) /\ c.pc = "done") =>
              /\ \A k \in 1..Len(S) :
                    LET b == ids[k]
                        st == get_bead_status(c.repo, b)
                    IN  /\ Count(ids, b) = Count(done, b) + Count(c.resp.skipped, b)
                        /\ InReview(st) => Count(c.resp.skipped, b) = 0
                        /\ ~InReview(st) => Count(done, b) = 0
              /\ Len(c.resp.results) =
                    Cardinality({k \in 1..Len(S) : InReview(get_bead_status(c.repo, ids[k]))})
              /\ \A k \in 1..Len(c.resp.skipped) : \E j \in 1..Len(S) : ids[j] = c.resp.skipped[k]
              /\ \A k \in 1..Len(done) : \E j \in 1..Len(S) : ids[j] = done[k]

\* Three siblings with statuses inreview, in_progress, inreview: two are
\* attempted, with different outcomes, and the third is skipped.
C4_Witness ==
    \E p \in Procs :
        LET c == call[p]
            S == ListedSiblings(c)
        IN  /\ RootFetchOk(c) /\ c.pc = "done"
            /\ Len(S) = 3
            /\ InReview(get_bead_status(c.repo, S[1].bead_id.v))
            /\ get_bead_status(c.repo, S[2].bead_id.v) = Some("in_progress")
            /\ InReview(get_bead_status(c.repo, S[3].bead_id.v))
            /\ Len(c.resp.results) = 2
            /\ c.resp.results[1].success /\ ~c.resp.results[2].success
            /\ c.resp.skipped = <<S[2].bead_id.v>>


----------------------------------------------------------------------------
(* Properties of the worktree lifecycle (SpecWorktree) *)

(* C5: create twice in sequence on the same (repo, bead), the first from a *)
(* state with neither the directory nor the branch: a first call that      *)
(* succeeds reports already_existed = FALSE, and the second returns at     *)
(* once, success with already_existed = TRUE and the path and branch of    *)
(* the first response.                                                     *)
C5_CreateTwice ==
    \A p \in Procs :
        LET c == call[p]
        IN  c.op = "create" =>
              /\ (c.pc = "done" /\ c.resp.kind = "create"
                  /\ ~c.pre.dir /\ ~c.pre.branch) =>
                    /\ c.resp.success
                    /\ c.resp.already_existed = FALSE
              /\ (c.before.resp.kind = "create"
                  /\ ~c.before.pre.dir /\ ~c.before.pre.branch) =>
                    /\ c.before.resp.already_existed = FALSE
                    /\ c.pc = "done"
                    /\ c.resp.kind = "create"
                    /\ c.resp.success
                    /\ c.resp.already_existed = TRUE
                    /\ c.resp.worktree_path = c.before.resp.worktree_path
                    /\ c.resp.branch = c.before.resp.branch

\* The second of two creates, the first of which made the workspace.
C5_Witness ==
    \E p \in Procs :
        LET c == call[p]
        IN  /\ c.op = "create" /\ c.pc = "done"
            /\ c.before.resp.kind = "create"
            /\ ~c.before.pre.dir /\ ~c.before.pre.branch
            /\ c.resp.kind = "create"

\* p takes a create request while the workspace directory exists.
CreateOnExisting(p) ==
    /\ call[p].pc \in {"idle", "done"}
    /\ call'[p] # call[p]
    /\ call'[p].op = "create"
    /\ call'[p].pre.dir

(* C6 as claimed: create on an existing workspace directory returns        *)
(* already_existed = TRUE at once, runs no subprocess and changes nothing  *)
(* on the filesystem, the ignore list included.                            *)
C6_ExistingCreateChangesNothing ==
    [][\A p \in Procs :
          CreateOnExisting(p) =>
              /\ call'[p].pc = "done"
              /\ call'[p].resp.kind = "create"
              /\ call'[p].resp.already_existed
              /\ call'[p].trace = <<>>
              /\ UNCHANGED <<dirs, branches, store, gitignore>>]_vars

(* C6 amended: create on an existing workspace directory returns           *)
(* already_existed = TRUE at once, runs no subprocess and leaves the       *)
(* directories, the branches and the issue store as they are; the ignore   *)
(* list is ensured before the existence check, so the only change it may   *)
(* make is to add the missing ignore-list entry.                           *)
C6_ExistingCreateOnlyEnsuresIgnore ==
    [][\A p \in Procs :
          CreateOnExisting(p) =>
              /\ call'[p].pc = "done"
              /\ call'[p].resp.kind = "create"
              /\ call'[p].resp.success
              /\ call'[p].resp.already_existed
              /\ call'[p].trace = <<>>
              /\ UNCHANGED <<dirs, branches, store>>
              /\ gitignore' \in {gitignore, TRUE}]_vars

\* A create on an existing workspace that added the ignore-list entry.
C6_Witness ==
    \E p \in Procs :
        LET c == call[p]
        IN  /\ c.op = "create" /\ c.pc = "done"
            /\ c.pre.dir /\ ~c.pre.ignored
            /\ c.resp.kind = "create" /\ c.resp.already_existed
            /\ gitignore

AlreadyExistsClass(out) ==
    out.kind = "fail" /\ Contains(out.stderr, <<"already exists">>)

(* C7: when the first `worktree add -b` fails with stderr containing       *)
(* "already exists", exactly one retry follows, attaching to the existing  *)
(* branch without -b, and its success is reported with already_existed =   *)
(* TRUE; when it fails otherwise or cannot be spawned there is no retry    *)
(* and the call ends with an error that carries the tool's error text.     *)
C7_RetryOnAlreadyExists ==
    \A p \in Procs :
        LET c == call[p]
            branch == BranchName(c.bead)
            path == WorktreePath(c.repo, branch)
        IN  (c.op = "create" /\ Len(c.outs) >= 1) =>
              /\ c.trace[1].cmd = "git worktree add -b"
              /\ AlreadyExistsClass(c.outs[1]) =>
                    /\ Len(c.trace) = 2
                    /\ c.trace[2] = Cmd("git worktree add", path \o branch, RootPath(c.repo))
                    /\ Len(c.outs) = 1 => c.pc = "create_add_existing"
                    /\ Len(c.outs) = 2 =>
                          /\ c.pc = "done"
                          /\ c.outs[2].kind = "ok" =>
                                c.resp = CreateWorktreeResponse(path, branch, TRUE)
                          /\ c.outs[2].kind # "ok" =>
                                /\ c.resp.kind = "error"
                                /\ EndsWith(c.resp.error, c.outs[2].stderr)
              /\ (c.outs[1].kind # "ok" /\ ~AlreadyExistsClass(c.outs[1])) =>
                    /\ Len(c.trace) = 1
                    /\ c.pc = "done"
                    /\ c.resp.kind = "error"
                    /\ c.resp.code = 500
                    /\ EndsWith(c.resp.error, c.outs[1].stderr)

\* A create whose retry on the existing branch succeeded.
C7_Witness ==
    \E p \in Procs :
        LET c == call[p]
        IN  /\ c.op = "create" /\ c.pc = "done"
            /\ Len(c.outs) = 2
            /\ AlreadyExistsClass(c.outs[1])
            /\ c.outs[2].kind = "ok"
            /\ c.resp.kind = "create" /\ c.resp.already_existed

(* C8: on an existing repository path, deleting a workspace whose          *)
(* directory does not exist returns success = TRUE and spawns nothing: no  *)
(* worktree removal, no branch deletion, no task close.                    *)
C8_DeleteAbsentIsNoop ==
    \A p \in Procs :
        LET c == call[p]
        IN  (c.op = "delete" /\ RepoExists(c.repo) /\ ~c.pre.dir) =>
              /\ c.pc = "done"
              /\ c.resp.kind = "delete"
              /\ c.resp.success
              /\ c.trace = <<>>

\* A delete of an absent workspace whose branch still exists.
C8_Witness ==
    \E p \in Procs :
        LET c == call[p]
        IN  /\ c.op = "delete" /\ c.repo = "/repo" /\ c.pc = "done"
            /\ ~c.pre.dir /\ c.pre.branch
            /\ c.resp.kind = "delete"

DirtyClass(out) ==
    out.kind = "fail" /\ Contains(out.stderr, <<"contains modified or untracked files">>)

CountCmd(c, name) == Cardinality({i \in 1..Len(c.trace) : c.trace[i].cmd = name})

(* C9: delete tries the plain removal first and once; the forced removal   *)
(* is issued once, second, and exactly when the plain one failed with      *)
(* stderr containing "contains modified or untracked files"; any other     *)
(* failure of the plain removal, and a failure of the forced one, ends the *)
(* call with an error.                                                     *)
C9_ForceOnlyOnDirty ==
    \A p \in Procs :
        LET c == call[p]
        IN  (c.op = "delete" /\ c.trace # <<>>) =>
              /\ c.trace[1].cmd = "git worktree remove"
              /\ CountCmd(c, "git worktree remove") = 1
              /\ CountCmd(c, "git worktree remove --force") <= 1
              /\ \A i \in 1..Len(c.trace) :
                    c.trace[i].cmd = "git worktree remove --force" =>
                        i = 2 /\ DirtyClass(c.outs[1])
              /\ (Len(c.outs) >= 1 /\ DirtyClass(c.outs[1])) =>
                    /\ Len(c.trace) >= 2
                    /\ c.trace[2].cmd = "git worktree remove --force"
              /\ (Len(c.outs) >= 1 /\ c.outs[1].kind # "ok" /\ ~DirtyClass(c.outs[1])) =>
                    /\ Len(c.trace) = 1
                    /\ c.pc = "done"
                    /\ c.resp.kind = "error"
              /\ (Len(c.outs) >= 2 /\ DirtyClass(c.outs[1]) /\ c.outs[2].kind # "ok") =>
                    /\ Len(c.trace) = 2
                    /\ c.pc = "done"
                    /\ c.resp.kind = "error"

\* A delete that succeeded through the forced removal.
C9_Witness ==
    \E p \in Procs :
        LET c == call[p]
        IN  /\ c.op = "delete" /\ c.pc = "done"
            /\ Len(c.outs) >= 2
            /\ DirtyClass(c.outs[1]) /\ c.outs[2].kind = "ok"
            /\ c.resp.kind = "delete"

\* The worktree removal of a delete call, plain or forced, has succeeded.
Removed(c) ==
    /\ Len(c.outs) >= 1
    /\ \/ c.outs[1].kind = "ok"
       \/ Len(c.outs) >= 2 /\ DirtyClass(c.outs[1]) /\ c.outs[2].kind = "ok"

(* C10: the branch deletion and the task close are spawned only after the  *)
(* removal, plain or forced, has succeeded; once it has, both are          *)
(* attempted, once each, branch first, and the call returns success = TRUE *)
(* whatever their outcomes.                                                *)
C10_CleanupIsBestEffort ==
    \A p \in Procs :
        LET c == call[p]
        IN  c.op = "delete" =>
              /\ \A i \in 1..Len(c.trace) :
                    c.trace[i].cmd \in {"git branch -D", "bd close"} => Removed(c)
              /\ Removed(c) =>
                    /\ c.pc \in {"delete_branch", "delete_close", "done"}
                    /\ CountCmd(c, "git branch -D") = 1
                    /\ c.pc # "delete_branch" => CountCmd(c, "bd close") = 1
                    /\ c.pc = "done" =>
                          /\ c.resp.kind = "delete"
                          /\ c.resp.success
                          /\ c.trace[Len(c.trace) - 1].cmd = "git branch -D"
                          /\ c.trace[Len(c.trace)].cmd = "bd close"

\* A delete that reports success although the branch deletion and the task
\* close both failed.
C10_Witness ==
    \E p \in Procs :
        LET c == call[p]
        IN  /\ c.op = "delete" /\ c.pc = "done" /\ Removed(c)
            /\ c.outs[Len(c.outs) - 1].kind # "ok"
            /\ c.outs[Len(c.outs)].kind # "ok"
            /\ c.resp.kind = "delete" /\ c.resp.success

----------------------------------------------------------------------------
(* Properties of the pull-request requests (SpecReview) *)

\* The merged-PR check of a create_pr call has returned, successfully, and
\* printed the merged pull requests the remote holds for the branch.
MergedReported(c) ==
    /\ Len(c.outs) >= 1
    /\ c.outs[1].kind = "ok"
    /\ c.local.merged # <<>>

\* The response is the conflict that names the pull request `pr`.
ConflictNaming(resp, pr) ==
    /\ resp.code = 409
    /\ ~resp.success
    /\ resp.error.some
    /\ resp.error.v[1] = "A merged PR already exists for this branch: #"
    /\ resp.error.v[2] = ToString(pr.number.v)
    /\ resp.error.v[4] = pr.title.v

(* C11 as claimed: whenever the remote holds a merged PR for the branch of *)
(* a create_pr call, the call ends with a conflict (409) naming that PR's  *)
(* number and title and never issues `gh pr create`.                       *)
C11_MergedPrBlocksCreate ==
    \A p \in Procs :
        LET c == call[p]
        IN  (c.op = "create_pr" /\ RepoExists(c.repo) /\ c.local.merged # <<>>) =>
              /\ CountCmd(c, "gh pr create") = 0
              /\ c.pc = "done" => ConflictNaming(c.resp, Head(c.local.merged))

(* C11 amended: create_pr first asks for the merged PRs of the branch.     *)
(* When that query succeeds and reports at least one, the call ends with   *)
(* a conflict (409) naming the number and title of the first one reported  *)
(* and never issues `gh pr create`; a conflict is returned in no other     *)
(* case.  When the query fails or cannot be spawned the call goes on to    *)
(* `gh pr create`, merged PR or not.                                       *)
C11_ReportedMergedPrBlocksCreate ==
    \A p \in Procs :
        LET c == call[p]
        IN  (c.op = "create_pr" /\ RepoExists(c.repo)) =>
              /\ c.trace[1].cmd = "gh pr list --state merged"
              /\ MergedReported(c) =>
                    /\ c.pc = "done"
                    /\ ConflictNaming(c.resp, Head(c.local.merged))
                    /\ CountCmd(c, "gh pr create") = 0
              /\ (Len(c.outs) >= 1 /\ c.outs[1].kind # "ok") =>
                    /\ CountCmd(c, "gh pr create") = 1
                    /\ c.pc = "done" => c.resp.code # 409
              /\ (c.pc = "done" /\ c.resp.code = 409) => MergedReported(c)

\* A create_pr that ended in a conflict naming the first of two merged PRs.
C11_Witness ==
    \E p \in Procs :
        LET c == call[p]
        IN  /\ c.op = "create_pr" /\ c.pc = "done"
            /\ RepoExists(c.repo)
            /\ Len(c.local.merged) = 2
            /\ c.resp.code = 409
            /\ c.resp.error.v[2] = "9"
            /\ Len(c.trace) = 1

\* The flag the merge command must carry for the merge_method of a request
\* (None: the field was omitted).
ExpectedMergeFlags(requested) ==
    IF ~requested.some THEN {"--squash"}
    ELSE CASE requested.v = "merge" -> {"--merge"}
           [] requested.v = "squash" -> {"--squash"}
           [] requested.v = "rebase" -> {"--rebase"}
           [] OTHER -> {"--merge", "--squash", "--rebase"}

(* C13: a merge_pr call on an existing repository path issues exactly one  *)
(* subprocess, `gh pr merge <branch> <flag>`, where the flag is --merge,   *)
(* --squash or --rebase as the requested method says and --squash when the *)
(* method is omitted; the command carries no --delete-branch, no branch    *)
(* deletion is ever run and the local branches stay as they are.           *)
C13_MergeOnceNoBranchDeletion ==
    [][\A p \in Procs :
          LET c == call'[p]
          IN  (c.op = "merge_pr" /\ RepoExists(c.repo)) =>
                /\ Len(c.trace) = 1
                /\ c.trace[1].cmd = "gh pr merge"
                /\ Len(c.trace[1].arg) = Len(BranchName(c.bead)) + 1
                /\ SubSeq(c.trace[1].arg, 1, Len(BranchName(c.bead))) = BranchName(c.bead)
                /\ c.trace[1].arg[Len(c.trace[1].arg)] \in ExpectedMergeFlags(c.local.requested)
                /\ ~Contains(c.trace[1].arg, <<"--delete-branch">>)
                /\ branches' = branches]_vars

\* A merge request without a merge_method that was merged with --squash.
C13_Witness ==
    \E p \in Procs :
        LET c == call[p]
        IN  /\ c.op = "merge_pr" /\ c.pc = "done"
            /\ RepoExists(c.repo)
            /\ ~c.local.requested.some
            /\ c.resp.code = 200 /\ c.resp.merged
            /\ c.trace[1].arg = BranchName(c.bead) \o <<"--squash">>

(* C14: every pr_status call on an existing repository path queries the    *)
(* rate limit, once, with or without a remote and whether or not the       *)
(* branch is pushed, and the query is in the trace before any PR lookup.   *)
C14_RateLimitBeforePrLookup ==
    \A p \in Procs :
        LET c == call[p]
        IN  (c.op = "pr_status" /\ RepoExists(c.repo)) =>
              /\ \A i \in 1..Len(c.trace) :
                    c.trace[i].cmd = "gh pr view" =>
                        \E j \in 1..(i - 1) : c.trace[j].cmd = "gh api rate_limit"
              /\ CountCmd(c, "gh api rate_limit") <= 1
              /\ c.pc = "done" => CountCmd(c, "gh api rate_limit") = 1

\* A pr_status call on a repository without a remote: the only commands
\* are the remote probe and the rate-limit query.
C14_Witness ==
    \E p \in Procs :
        LET c == call[p]
        IN  /\ c.op = "pr_status" /\ c.pc = "done"
            /\ RepoExists(c.repo)
            /\ ~c.resp.has_remote
            /\ Len(c.trace) = 2
            /\ c.trace[2].cmd = "gh api rate_limit"

(* C15: in pr_status the pushed-branch probe is run exactly when           *)
(* has_remote is true and branch_pushed is false without a remote; the PR  *)
(* lookup is run exactly when branch_pushed is true; the response is       *)
(* always a normal one (200), whose PR field is absent when the branch is  *)
(* not pushed and when the lookup fails or cannot be spawned.              *)
C15_ProbeGating ==
    \A p \in Procs :
        LET c == call[p]
        IN  (c.op = "pr_status" /\ RepoExists(c.repo)) =>
              /\ CountCmd(c, "git ls-remote --heads origin") =
                    (IF Len(c.outs) >= 1 /\ c.local.has_remote THEN 1 ELSE 0)
              /\ ~c.local.has_remote => ~c.local.branch_pushed
              /\ CountCmd(c, "gh pr view") <= 1
              /\ CountCmd(c, "gh pr view") = 1 => c.local.branch_pushed
              /\ c.pc = "done" =>
                    /\ c.resp.kind = "pr_status" /\ c.resp.code = 200
                    /\ c.resp.has_remote = c.local.has_remote
                    /\ c.resp.branch_pushed = c.local.branch_pushed
                    /\ ~c.resp.branch_pushed =>
                          CountCmd(c, "gh pr view") = 0 /\ ~c.resp.pr.some
                    /\ c.resp.branch_pushed =>
                          /\ CountCmd(c, "gh pr view") = 1
                          /\ c.outs[Len(c.outs)].kind # "ok" => ~c.resp.pr.some

\* A pr_status call whose PR lookup failed: a normal response without a PR.
C15_Witness ==
    \E p \in Procs :
        LET c == call[p]
        IN  /\ c.op = "pr_status" /\ c.pc = "done"
            /\ RepoExists(c.repo)
            /\ c.resp.code = 200
            /\ c.resp.has_remote /\ c.resp.branch_pushed
            /\ c.trace[Len(c.trace)].cmd = "gh pr view"
            /\ c.outs[Len(c.outs)].kind = "fail"
            /\ ~c.resp.pr.some

\* The subprocess did not end with a zero exit: non-zero exit, or not spawned.
Failed(out) == out.kind # "ok"

(* C20: the four probes never produce an error, and a probe whose          *)
(* subprocess fails, by a non-zero exit or by a failure to spawn, gives    *)
(* its negative value: ahead_behind (0, 0) when both of its rev-list       *)
(* commands fail, dirty, has_remote and branch_pushed FALSE.               *)
C20_ProbesSoftFail ==
    \A p \in Procs :
        LET c == call[p]
        IN  /\ (c.op = "status" /\ c.pc = "done" /\ c.outs # <<>>) =>
                  /\ c.resp.kind = "status" /\ c.resp.code = 200
                  /\ Failed(c.outs[Len(c.outs)]) => c.resp.dirty = Some(FALSE)
                  /\ (\A i \in 1..(Len(c.outs) - 1) : Failed(c.outs[i])) =>
                        c.resp.ahead = Some(0) /\ c.resp.behind = Some(0)
            /\ (c.op = "pr_status" /\ c.pc = "done" /\ c.outs # <<>>) =>
                  /\ c.resp.kind = "pr_status" /\ c.resp.code = 200
                  /\ Failed(c.outs[1]) => ~c.resp.has_remote
                  /\ (c.resp.has_remote /\ Failed(c.outs[2])) => ~c.resp.branch_pushed

----------------------------------------------------------------------------
(* Properties of the pure functions (SpecFunctions) *)

(* C16: for every list of checks the aggregate status computed by          *)
(* parse_status_checks is "failure" if failed > 0, else "pending" if       *)
(* pending > 0, else "success"; a rollup without checks (an empty array,   *)
(* or no array) gives total = 0 and "success".                             *)
C16_StatusFromCounts ==
    \A p \in Procs :
        LET c == call[p]
        IN  (c.op = "parse_status_checks" /\ c.pc = "done") =>
              /\ c.resp.status = (IF c.resp.failed > 0 THEN "failure"
                                  ELSE IF c.resp.pending > 0 THEN "pending"
                                  ELSE "success")
              /\ (c.local.input.kind # "array" \/ c.local.input.v = <<>>) =>
                    c.resp.total = 0 /\ c.resp.status = "success"

\* A rollup with a passed, a pending and a failed check: status "failure".
C16_Witness ==
    \E p \in Procs :
        LET c == call[p]
        IN  /\ c.op = "parse_status_checks" /\ c.pc = "done"
            /\ c.resp.total = 3 /\ c.resp.passed = 1
            /\ c.resp.pending = 1 /\ c.resp.failed = 1
            /\ c.resp.status = "failure"

(* C17: extract_bead_id maps the branch name "bd-" + t back to Some(t) for *)
(* every task id t, and every branch name that does not start with "bd-"   *)
(* to None.                                                                *)
C17_BranchMapsBackToTask ==
    \A p \in Procs :
        LET c == call[p]
            branch == c.local.input
        IN  (c.op = "extract_bead_id" /\ c.pc = "done") =>
              IF StartsWith(branch, <<"bd-">>)
                  THEN c.resp.some /\ BranchName(c.resp.v) = branch
                  ELSE ~c.resp.some

----------------------------------------------------------------------------
(* Properties of all operations (SpecAll) *)

\* The command a trace entry is a form of: the two forms of `worktree add`
\* are one command, and so are the two forms of `worktree remove`.
CommandKind(cmd) ==
    CASE cmd \in {"git worktree add -b", "git worktree add"} -> "git worktree add"
      [] cmd \in {"git worktree remove", "git worktree remove --force"} -> "git worktree remove"
      [] OTHER -> cmd

\* How often the call has issued a command of this kind in this directory.
KindCount(c, kind, cwd) ==
    Cardinality({i \in 1..Len(c.trace) :
                    /\ IsSubprocess(c.trace[i])
                    /\ CommandKind(c.trace[i].cmd) = kind
                    /\ c.trace[i].cwd = cwd})

\* The i-th outcome of the call is a failure that starts a fallback: the
\* first add of create failing on an existing branch, the plain removal of
\* delete failing on a dirty workspace.
FallbackTrigger(c, i) ==
    /\ i = 1
    /\ \/ c.op = "create" /\ AlreadyExistsClass(c.outs[1])
       \/ c.op = "delete" /\ DirtyClass(c.outs[1])

SameCommand(a, b) == a.cmd = b.cmd /\ a.arg = b.arg /\ a.cwd = b.cwd

\* The i-th outcome of the call is a failure the handler treats as final.
TerminalFailure(c, i) ==
    LET out == c.outs[i]
    IN  /\ out.kind # "ok"
        /\ \/ c.op = "create" /\ (i = 2 \/ (i = 1 /\ ~AlreadyExistsClass(out)))
           \/ c.op = "delete" /\ ((i = 2 /\ DirtyClass(c.outs[1])) \/ (i = 1 /\ ~DirtyClass(out)))
           \/ c.op \in {"list", "rebase"} /\ i = 1
           \/ c.op = "rebase" /\ i = 2 /\ out.kind = "spawn"
           \/ c.op = "create_pr" /\ i = 2
           \/ c.op = "merge_pr" /\ i = 1

\* The subprocesses of one sibling, in order: fetch, rebase, then push or
\* rebase abort.  A fetch that cannot be spawned, a rebase that fails and a
\* push that fails end the sibling; after a failed rebase only the abort runs.
SiblingEnded(outs) ==
    /\ Len(outs) <= 3
    /\ (Len(outs) >= 1 /\ outs[1].kind = "spawn") => Len(outs) = 1
    /\ (Len(outs) >= 2 /\ outs[2].kind = "spawn") => Len(outs) = 2

Operations ==
    {"status", "create", "delete", "list", "pr_status", "create_pr", "merge_pr", "rebase"}

(* C18: every operation given a repository path that is missing or is not  *)
(* a directory returns at once with a precondition error (400), spawns no  *)
(* subprocess and changes no directory, branch, ignore list or task store. *)
C18_BadRepoFailsAtOnce ==
    [][\A p \in Procs :
          LET c == call'[p]
          IN  (c.op \in Operations /\ ~RepoIsDir(c.repo)) =>
                /\ c.pc = "done"
                /\ c.resp.code = 400
                /\ c.trace = <<>>
                /\ UNCHANGED <<dirs, branches, gitignore, store>>]_vars

(* C19: status is read-only: no step of a status call changes the          *)
(* workspace directories, the branches, the ignore list or the task store. *)
(* On an existing repository path, when the workspace directory does not   *)
(* exist the call returns at once exists = FALSE with path, branch, ahead, *)
(* behind, dirty and last_modified absent and spawns nothing; when the     *)
(* directory exists a finished call reports exists = TRUE.                 *)
C19_StatusReadOnly ==
    [][\A p \in Procs :
          LET c == call'[p]
          IN  c.op = "status" =>
                /\ UNCHANGED <<dirs, branches, gitignore, store>>
                /\ (RepoExists(c.repo) /\ ~c.pre.dir) =>
                      /\ c.pc = "done"
                      /\ c.trace = <<>>
                      /\ c.resp.kind = "status"
                      /\ ~c.resp.exists
                      /\ ~c.resp.worktree_path.some /\ ~c.resp.branch.some
                      /\ ~c.resp.ahead.some /\ ~c.resp.behind.some
                      /\ ~c.resp.dirty.some /\ ~c.resp.last_modified.some
                /\ (c.pre.dir /\ c.pc = "done") =>
                      c.resp.kind = "status" /\ c.resp.exists]_vars

\* A status request for a bead without a workspace, in a repository that
\* has the workspace of another bead.
C19_Witness ==
    \E p \in Procs :
        LET c == call[p]
        IN  /\ c.op = "status" /\ c.pc = "done"
            /\ c.repo = "/repo"
            /\ ~c.pre.dir
            /\ dirs # {}
            /\ c.resp.kind = "status" /\ ~c.resp.exists
            /\ c.trace = <<>>

----------------------------------------------------------------------------
(* Properties of the pure functions, continued (SpecFunctions) *)

\* The lines of the store that are records of `bead`.
RecordsOf(bead) ==
    {i \in 1..Len(store.lines) : store.lines[i].kind = "rec" /\ store.lines[i].id = bead}

\* A finished application of get_bead_status.
LookedUp(p) ==
    p \in procs /\ call[p].op = "get_bead_status" /\ call[p].pc = "done"

(* C21: get_bead_status returns a status exactly when the file can be read *)
(* and holds a record with the requested id, blank and unparsable lines    *)
(* being skipped; the status returned is that of a record with that id,    *)
(* never that of a record with another id.                                 *)
C21_StatusOfRequestedRecord ==
    \A p \in Procs :
        LookedUp(p) =>
            LET in == call[p].local.input
                r == call[p].resp
                readable == in.repo = "/repo" /\ store.readable
            IN  /\ r.some <=> (readable /\ RecordsOf(in.bead) # {})
                /\ r.some => \E i \in RecordsOf(in.bead) : store.lines[i].status = r.v
                /\ ~r.some => r = None

\* A status was found behind a blank line, an unparsable line and the
\* record of another bead with another status.
C21_Witness ==
    \E p \in Procs :
        /\ LookedUp(p)
        /\ call[p].resp.some
        /\ \E i \in RecordsOf(call[p].local.input.bead) :
              /\ i = Len(store.lines)
              /\ \E j \in 1..(i - 1) : store.lines[j].kind \in {"blank", "junk", "partial"}
              /\ \E j \in 1..(i - 1) :
                    /\ store.lines[j].kind = "rec"
                    /\ store.lines[j].id # call[p].local.input.bead
                    /\ store.lines[j].status # call[p].resp.v

\* The text after the last '/' of the URL; the whole URL if it has none.
LastSegment(url) ==
    LET slashes == {i \in 1..Len(url) : url[i] = "/"}
        last == IF slashes = {} THEN 0 ELSE CHOOSE i \in slashes : \A j \in slashes : j <= i
    IN  SubSeq(url, last + 1, Len(url))

\* A finished application of extract_pr_number_from_url.
Extracted(p) ==
    p \in procs /\ call[p].op = "extract_pr_number_from_url" /\ call[p].pc = "done"

(* C22: extract_pr_number_from_url returns Some(n) exactly when the text   *)
(* after the last '/' of the URL parses as the integer n, and None         *)
(* otherwise; a text that parses holds digits after an optional sign.      *)
C22_NumberOfLastSegment ==
    \A p \in Procs :
        Extracted(p) =>
            LET seg == LastSegment(call[p].local.input)
                r == call[p].resp
            IN  /\ r = Parse(seg)
                /\ r.some => /\ seg # <<>>
                             /\ \A i \in 1..Len(seg) :
                                   seg[i] \in Digits \/ (i = 1 /\ seg[i] \in {"+", "-"})
                /\ (seg # <<>> /\ \A i \in 1..Len(seg) : seg[i] \in Digits) => r.some

\* A two-digit number was read behind the last of two '/', the text before
\* it being no number.
C22_Witness ==
    \E p \in Procs :
        /\ Extracted(p)
        /\ call[p].local.input = <<"pull", "/", "1", "2">>
        /\ call[p].resp = Some(12)

----------------------------------------------------------------------------
(* Properties of the sibling rebase, continued (SpecRebase) *)

PushCmd == "git push origin --force-with-lease"

\* The commands spawned for the sibling in hand: those traced after the
\* last status lookup.
RECURSIVE SinceLookup(_)
SinceLookup(trace) ==
    IF trace = <<>> \/ IsLookup(trace[Len(trace)]) THEN <<>>
    ELSE Append(SinceLookup(SubSeq(trace, 1, Len(trace) - 1)), trace[Len(trace)])

(* C23: the force-push of a sibling is issued by the step in which that    *)
(* sibling's rebase command returns with success, in the same batch; it    *)
(* names the branch "bd-" + task id and runs in the sibling's workspace;   *)
(* one sibling has at most one push; when the push fails the sibling's     *)
(* result is a failure that carries the error text of the push.            *)
C23_PushOnlyAfterRebase ==
    [][\A p \in Procs :
          LET c == call[p]
              d == call'[p]
              pushes(t) == Cardinality({i \in 1..Len(t) : t[i].cmd = PushCmd})
          IN  d.op = "rebase" =>
                /\ pushes(d.trace) > pushes(IF c.op = "rebase" /\ d.pc # "rebase_list"
                                               THEN c.trace ELSE <<>>) =>
                      /\ c.op = "rebase" /\ c.pc = "sibling_rebase"
                      /\ d.trace = Append(c.trace, d.trace[Len(d.trace)])
                      /\ d.cur.bead = c.cur.bead /\ d.cur.path = c.cur.path
                      /\ Len(d.cur.outs) = 2 /\ d.cur.outs[2].kind = "ok"
                      /\ d.trace[Len(d.trace)] =
                            Cmd(PushCmd, <<"bd-">> \o c.cur.bead, c.cur.path)
                /\ pushes(SinceLookup(d.trace)) <= 1
                /\ (c.pc = "sibling_push" /\ d.pc # "sibling_push"
                      /\ d.last.outs[3].kind # "ok") =>
                      /\ Len(d.results) = Len(c.results) + 1
                      /\ LET r == d.results[Len(d.results)]
                         IN  /\ r.bead_id = c.cur.bead
                             /\ ~r.success
                             /\ r.error.some
                             /\ EndsWith(r.error.v, d.last.outs[3].stderr)
                             /\ r.error.v[1] \in {"Push failed: ", "Push command failed: "}]_vars

\* A sibling was rebased and its push was rejected: its result carries the
\* text of the rejection.
C23_Witness ==
    \E p \in Procs :
        LET c == call[p]
        IN  /\ c.op = "rebase" /\ c.results # <<>>
            /\ Len(c.last.outs) = 3
            /\ c.last.outs[2].kind = "ok"
            /\ c.last.outs[3] = OutFail(ErrRejected)
            /\ c.results[Len(c.results)] =
                  RebaseSiblingResult(c.last.bead, FALSE, "Push failed: ", ErrRejected)

\* What a step added to the trace of a call.
Added(c, d) == SubSeq(d.trace, Len(c.trace) + 1, Len(d.trace))

\* How the rebase command ended that returned in the step from c to d.
RebaseOut(c, d) ==
    IF Len(d.cur.outs) = 2 /\ d.cur.path = c.cur.path
        THEN d.cur.outs[2]
        ELSE d.last.outs[2]

(* C24: when the rebase command of a sibling exits with failure, the same  *)
(* step issues `git rebase --abort` in that workspace and records nothing; *)
(* when the abort returns, however it ended, the sibling's result is a     *)
(* failure with the error text of the rebase, and only then may the next   *)
(* sibling be looked up; no push is issued for the sibling.                *)
C24_FailedRebaseIsAborted ==
    [][\A p \in Procs :
          LET c == call[p]
              d == call'[p]
          IN  /\ (c.pc = "sibling_rebase" /\ d # c /\ RebaseOut(c, d).kind = "fail") =>
                    /\ d.pc = "sibling_abort"
                    /\ Added(c, d) = <<Cmd("git rebase --abort", <<>>, c.cur.path)>>
                    /\ d.results = c.results /\ d.skipped = c.skipped
                    /\ d.siblings = c.siblings
              /\ (c.pc = "sibling_abort" /\ d # c) =>
                    /\ c.cur.outs[2].kind = "fail"
                    /\ \A i \in 1..Len(SinceLookup(c.trace)) :
                          SinceLookup(c.trace)[i].cmd # PushCmd
                    /\ d.results = Append(c.results,
                          RebaseSiblingResult(c.cur.bead, FALSE, "Rebase conflict: ",
                                              c.cur.outs[2].stderr))
                    /\ \A i \in 1..Len(Added(c, d)) :
                          /\ Added(c, d)[i].cmd # PushCmd
                          /\ Added(c, d)[i].cmd \in WorkspaceCommands =>
                                Added(c, d)[i].cmd = "git fetch origin"
                    /\ Added(c, d) # <<>> => IsLookup(Added(c, d)[1])]_vars

\* A conflicting rebase whose abort could not even be spawned was recorded
\* as a conflict, and the batch went on to fetch for the next sibling.
C24_Witness ==
    \E p \in Procs :
        LET c == call[p]
        IN  /\ c.op = "rebase" /\ c.pc = "sibling_fetch"
            /\ c.results # <<>>
            /\ c.last.outs = <<OutOk, OutFail(ErrConflict), OutSpawn>>
            /\ c.results[Len(c.results)] =
                  RebaseSiblingResult(c.last.bead, FALSE, "Rebase conflict: ", ErrConflict)
            /\ c.cur.path # c.last.path

\* How the fetch ended that returned in the step from c to d.
FetchOut(c, d) ==
    IF Len(d.cur.outs) = 1 /\ d.cur.path = c.cur.path
        THEN d.cur.outs[1]
        ELSE d.last.outs[1]

(* C25: when the fetch run in a sibling's workspace fails, by a non-zero   *)
(* exit or by a failure to spawn, the step records the sibling as a        *)
(* failure and issues neither a rebase nor a push for it.                  *)
C25_SiblingFetchFailureStops ==
    [][\A p \in Procs :
          LET c == call[p]
              d == call'[p]
          IN  (c.pc = "sibling_fetch" /\ d # c /\ FetchOut(c, d).kind # "ok") =>
                /\ Len(d.results) = Len(c.results) + 1
                /\ d.results[Len(d.results)].bead_id = c.cur.bead
                /\ ~d.results[Len(d.results)].success
                /\ \A i \in 1..Len(Added(c, d)) :
                      Added(c, d)[i].cmd \notin {"git rebase origin/main", PushCmd}]_vars

(* C26: an entry of the listing whose task id is the excluded one, or that *)
(* has no task id, is left alone by the batch: no fetch, rebase, abort or  *)
(* push runs in its workspace, and the excluded id is never looked up and  *)
(* appears neither in the results nor in the skip list.                    *)
C26_ExcludedUntouched ==
    \A p \in Procs :
        LET c == call[p]
        IN  c.op = "rebase" =>
              /\ \A k \in 1..Len(c.worktrees) :
                    LET w == c.worktrees[k]
                    IN  (~w.bead_id.some \/ w.bead_id.v = c.bead) =>
                          \A i \in 1..Len(c.trace) :
                              ~(/\ c.trace[i].cmd \in WorkspaceCommands
                                /\ c.trace[i].cwd = w.path)
              /\ \A i \in 1..Len(c.trace) :
                    (IsLookup(c.trace[i]) \/ c.trace[i].cmd = PushCmd) =>
                        c.trace[i].arg # c.bead /\ c.trace[i].arg # BranchName(c.bead)
              /\ \A i \in 1..Len(c.results) : c.results[i].bead_id # c.bead
              /\ \A i \in 1..Len(c.skipped) : c.skipped[i] # c.bead
              /\ Len(c.results) + Len(c.skipped) <= Len(ListedSiblings(c))

\* A finished batch whose listing held the excluded bead's workspace, a
\* workspace on a branch without a task id, and a sibling that was rebased.
C26_Witness ==
    \E p \in Procs :
        LET c == call[p]
        IN  /\ c.op = "rebase" /\ c.pc = "done" /\ c.resp.kind = "rebase"
            /\ \E k \in 1..Len(c.worktrees) : c.worktrees[k].bead_id = Some(c.bead)
            /\ \E k \in 1..Len(c.worktrees) : ~c.worktrees[k].bead_id.some
            /\ \E i \in 1..Len(c.resp.results) : c.resp.results[i].success

----------------------------------------------------------------------------
(* Properties of the worktree listing (SpecFunctions) *)

\* A finished application of parse_worktree_list.
Parsed(p) ==
    p \in procs /\ call[p].op = "parse_worktree_list" /\ call[p].pc = "done"

\* What the tool reported about the workspace `name`.
ReportOf(reports, name) ==
    LET i == CHOOSE k \in 1..Len(ToolOrder) : ToolOrder[k] = name
    IN  reports[i]

(* C27: the listing merges the tool listing and the directory scan by      *)
(* path: every directory of the workspace root whose name starts with      *)
(* "bd-" is the path of exactly one entry of the result, which carries the *)
(* branch the tool reported for it, or is the scan's entry when the tool   *)
(* does not report it, whatever else is listed.                            *)
C27_ListingMergesByPath ==
    \A p \in Procs :
        Parsed(p) =>
            LET ws == call[p].resp
                reports == call[p].local.input.reports
            IN  \A name \in dirs :
                    StartsWith(name, <<"bd-">>) =>
                        LET path == WorktreePath("/repo", name)
                            hits == {k \in 1..Len(ws) : ws[k].path = path}
                        IN  /\ Cardinality(hits) = 1
                            /\ \A k \in hits :
                                  CASE ReportOf(reports, name) = "own" ->
                                         ws[k] = WorktreeEntry(path, name)
                                    [] ReportOf(reports, name) = "feature" ->
                                         ws[k] = WorktreeEntry(path, <<"feature">>)
                                    [] ReportOf(reports, name) = "unlisted" ->
                                         ws[k] = WorktreeEntry(path, name)
                                    [] OTHER -> TRUE

----------------------------------------------------------------------------
(* Properties of the order of a batch (SpecRebase) *)

(* C28: a batch lists the workspaces, then runs one fetch at the           *)
(* repository root, then processes the siblings: the first traced step is  *)
(* the listing, the second the root fetch, and every later one is a status *)
(* lookup or a subprocess in a sibling's workspace, made after the root    *)
(* fetch returned; no later fetch runs at the root.                        *)
C28_ListThenRootFetchThenSiblings ==
    \A p \in Procs :
        LET c == call[p]
            t == c.trace
        IN  c.op = "rebase" =>
              /\ Len(t) >= 1 =>
                    t[1] = Cmd("git worktree list --porcelain", <<>>, RootPath(c.repo))
              /\ Len(t) >= 2 =>
                    /\ t[2] = Cmd("git fetch origin", <<>>, RootPath(c.repo))
                    /\ Len(c.outs) >= 1 /\ c.outs[1].kind = "ok"
              /\ Len(t) >= 3 => Len(c.outs) = 2
              /\ \A i \in 3..Len(t) :
                    /\ IsLookup(t[i]) \/ t[i].cmd \in WorkspaceCommands
                    /\ ~IsLookup(t[i]) => t[i].cwd # RootPath(c.repo)
              /\ Cardinality({i \in 1..Len(t) :
                                 t[i].cmd = "git fetch origin" /\ t[i].cwd = RootPath(c.repo)}) <= 1
              /\ (c.pc = "done" /\ c.resp.kind = "rebase") => Len(t) >= 2

\* A finished batch that listed, fetched at the root, skipped one sibling
\* and then fetched in the workspace of another.
C28_Witness ==
    \E p \in Procs :
        LET c == call[p]
            t == c.trace
        IN  /\ c.op = "rebase" /\ c.pc = "done" /\ c.resp.kind = "rebase"
            /\ Len(t) >= 5
            /\ IsLookup(t[3]) /\ IsLookup(t[4])
            /\ t[5].cmd = "git fetch origin" /\ t[5].cwd # RootPath(c.repo)
            /\ c.resp.skipped # <<>>

\* The bead ids of the first n siblings whose looked-up status is
\* "inreview", in order.
RECURSIVE Attempted(_, _, _)
Attempted(S, L, n) ==
    IF n = 0 THEN <<>>
    ELSE Attempted(S, L, n - 1)
         \o (IF InReview(L[n].status) THEN <<S[n].bead_id.v>> ELSE <<>>)

\* The number of status lookups among the first i traced steps.
LookupsUpTo(t, i) == Cardinality({j \in 1..i : IsLookup(t[j])})

Awaiting == {"sibling_fetch", "sibling_rebase", "sibling_abort", "sibling_push"}

(* C29: siblings are processed one at a time in listing order.  The k-th   *)
(* status lookup is for the k-th sibling of the listing; a subprocess in a *)
(* workspace belongs to the sibling looked up last; while a subprocess is  *)
(* awaited it is the last traced step, so no lookup starts before it has   *)
(* returned; the results are the attempted siblings and the skip list the  *)
(* skipped ones, each in listing order.                                    *)
C29_OneAtATimeInListingOrder ==
    \A p \in Procs :
        LET c == call[p]
            t == c.trace
            S == ListedSiblings(c)
            L == Lookups(c)
            A == Attempted(S, L, Len(L))
            done == [k \in 1..Len(c.results) |-> c.results[k].bead_id]
        IN  c.op = "rebase" =>
              /\ Len(L) <= Len(S)
              /\ \A k \in 1..Len(L) : L[k].arg = S[k].bead_id.v
              /\ \A i \in 3..Len(t) :
                    ~IsLookup(t[i]) =>
                        /\ LookupsUpTo(t, i) >= 1
                        /\ t[i].cwd = S[LookupsUpTo(t, i)].path
                        /\ InReview(L[LookupsUpTo(t, i)].status)
              /\ c.pc \in Awaiting =>
                    /\ ~IsLookup(t[Len(t)])
                    /\ t[Len(t)].cwd = c.cur.path
                    /\ done = SubSeq(A, 1, Len(A) - 1)
              /\ (RootFetchDone(c) /\ c.pc \notin Awaiting) =>
                    /\ c.pc = "done"
                    /\ RootFetchAborts(c.outs[2]) \/ (done = A /\ Len(L) = Len(S))
              /\ c.skipped = NotInReview(S, L, Len(L))

\* A finished batch of three siblings: the first was skipped, the second
\* conflicted and was aborted, the third was rebased and pushed.
C29_Witness ==
    \E p \in Procs :
        LET c == call[p]
            S == ListedSiblings(c)
        IN  /\ c.op = "rebase" /\ c.pc = "done" /\ c.resp.kind = "rebase"
            /\ Len(S) = 3
            /\ c.resp.skipped = <<S[1].bead_id.v>>
            /\ Len(c.resp.results) = 2
            /\ c.resp.results[1].bead_id = S[2].bead_id.v
            /\ c.resp.results[2].bead_id = S[3].bead_id.v
            /\ ~c.resp.results[1].success /\ c.resp.results[2].success
            /\ Len(c.trace) = 11

----------------------------------------------------------------------------
(* Properties of the check counts (SpecFunctions) *)

\* The rule of the buckets, one predicate per bucket.
PassedByRule(ch) ==
    ch.status \notin {"QUEUED", "IN_PROGRESS"} /\ ch.conclusion = "SUCCESS"

FailedByRule(ch) ==
    \/ /\ ch.status = "COMPLETED"
       /\ ch.conclusion \in {"FAILURE", "CANCELLED", "TIMED_OUT", "ACTION_REQUIRED"}
    \/ /\ ch.status \notin {"QUEUED", "IN_PROGRESS", "COMPLETED"}
       /\ ch.conclusion \in {"FAILURE", "ERROR"}

PendingByRule(ch) ==
    \/ ch.status \in {"QUEUED", "IN_PROGRESS"}
    \/ /\ ch.status = "COMPLETED"
       /\ ch.conclusion \notin {"SUCCESS", "FAILURE", "CANCELLED", "TIMED_OUT",
                                "ACTION_REQUIRED"}
    \/ /\ ch.status \notin {"QUEUED", "IN_PROGRESS", "COMPLETED"}
       /\ ch.conclusion \notin {"SUCCESS", "FAILURE", "ERROR"}

\* A finished application of parse_status_checks to a list of checks.
Tallied(p) ==
    /\ p \in procs
    /\ call[p].op = "parse_status_checks"
    /\ call[p].pc = "done"
    /\ call[p].local.input.kind = "array"

(* C30: each check is counted in exactly one bucket: QUEUED or IN_PROGRESS *)
(* is pending; COMPLETED counts by conclusion (SUCCESS passed; FAILURE,    *)
(* CANCELLED, TIMED_OUT, ACTION_REQUIRED failed; else pending); any other  *)
(* status counts by conclusion alone (SUCCESS passed; FAILURE or ERROR     *)
(* failed; else pending).                                                  *)
C30_OneBucketPerCheck ==
    \A p \in Procs :
        Tallied(p) =>
            LET checks == call[p].local.input.v
                r == call[p].resp
                n(B(_)) == Cardinality({i \in 1..Len(checks) : B(checks[i])})
            IN  /\ r.total = Len(checks)
                /\ r.passed = n(PassedByRule)
                /\ r.failed = n(FailedByRule)
                /\ r.pending = n(PendingByRule)
                /\ r.passed + r.failed + r.pending = r.total

\* A completed check and a check of another status, both with the
\* conclusion ERROR: the first counted pending, the second failed.
C30_Witness ==
    \E p \in Procs :
        /\ Tallied(p)
        /\ call[p].local.input.v = <<Check("COMPLETED", "ERROR"), Check("PENDING", "ERROR")>>
        /\ call[p].resp.pending = 1
        /\ call[p].resp.failed = 1
        /\ call[p].resp.passed = 0

----------------------------------------------------------------------------
(* Properties of the status request, continued (SpecReview) *)

RevListCmd == "git rev-list --left-right --count"

\* The comparison succeeded: a zero exit that printed two fields, one tab
\* between them.
Compared(out) ==
    /\ out.kind = "ok"
    /\ Cardinality({i \in 1..Len(out.stdout) : out.stdout[i] = "\t"}) = 1

\* The counts a successful comparison printed: behind, a tab, ahead; a
\* field that is no number counts as 0.
CountsOf(out) ==
    LET k == CHOOSE i \in 1..Len(out.stdout) : out.stdout[i] = "\t"
    IN  [ahead |-> ParseOr0(SubSeq(out.stdout, k + 1, Len(out.stdout))),
         behind |-> ParseOr0(SubSeq(out.stdout, 1, k - 1))]

\* The rev-list of a status call against the base branch `base`.
RevListAgainst(c, base) ==
    Cmd(RevListCmd, <<base, "...">> \o BranchName(c.bead), RootPath(c.repo))

(* C31: ahead_behind compares with main first and with master only when    *)
(* the comparison with main did not succeed; the counts reported are those *)
(* of the first comparison that succeeded, and 0 and 0 when neither did.   *)
C31_MainThenMaster ==
    \A p \in Procs :
        LET c == call[p]
            t == c.trace
            n == Cardinality({i \in 1..Len(t) : t[i].cmd = RevListCmd})
            got == [ahead |-> c.local.ahead, behind |-> c.local.behind]
        IN  (c.op = "status" /\ t # <<>>) =>
              /\ t[1] = RevListAgainst(c, "main")
              /\ n <= 2
              /\ \A i \in 1..Len(t) :
                    t[i] = RevListAgainst(c, "master") =>
                        i = 2 /\ ~Compared(c.outs[1])
              /\ (Len(c.outs) >= 1 /\ Compared(c.outs[1])) =>
                    /\ n = 1
                    /\ got = CountsOf(c.outs[1])
              /\ (Len(c.outs) >= 1 /\ ~Compared(c.outs[1])) =>
                    /\ t[2] = RevListAgainst(c, "master")
                    /\ Len(c.outs) >= 2 =>
                          got = IF Compared(c.outs[2]) THEN CountsOf(c.outs[2])
                                ELSE [ahead |-> 0, behind |-> 0]
              /\ c.pc = "done" =>
                    /\ c.resp.ahead = Some(got.ahead)
                    /\ c.resp.behind = Some(got.behind)

\* The comparison with main failed and the one with master printed 2 and
\* 1: the status reports 1 ahead and 2 behind.
C31_Witness ==
    \E p \in Procs :
        LET c == call[p]
        IN  /\ c.op = "status" /\ c.pc = "done" /\ Len(c.outs) = 3
            /\ c.outs[1] = Output("fail", <<>>)
            /\ c.outs[2] = Output("ok", <<"2", "\t", "1">>)
            /\ c.resp.ahead = Some(1)
            /\ c.resp.behind = Some(2)

----------------------------------------------------------------------------
(* Properties of the epic status (SpecFunctions) *)

\* A finished application of compute_epic_status_from_children.
Computed(p) ==
    /\ p \in procs
    /\ call[p].op = "compute_epic_status_from_children"
    /\ call[p].pc = "done"

----------------------------------------------------------------------------
(* Properties of the epic recomputation (SpecEpics) *)

\* The run of recompute_epic_statuses that this step makes, if any.
Recomputes(c, d) == d.op = "recompute" /\ d # c

\* The bead has a child among the beads: a bead with a parent-child
\* dependency on it, or one without parent_id whose id extends its id.
HasChild(beads, id) ==
    \E j \in 1..Len(beads) :
        \/ \E k \in 1..Len(beads[j].dependencies) :
              beads[j].dependencies[k] = Dependency(id, "parent-child")
        \/ /\ ~beads[j].parent_id.some
           /\ HasDot(beads[j].id)
           /\ BeforeLastDot(beads[j].id) = id

C39_SecondRunChangesNothing ==
    [][\A p \in Procs :
          (/\ Recomputes(call[p], call'[p])
           /\ call[p].op = "recompute"
           /\ call[p].resp.ok
           /\ call'[p].resp.ok) =>
              /\ call'[p].resp = RecomputeResponse(TRUE, <<>>)
              /\ ~call'[p].local.wrote
              /\ store' = store]_vars

----------------------------------------------------------------------------
(* Properties of the check counts (SpecFunctions) *)

\* A finished application of parse_status_checks to any rollup.
Aggregated(p) ==
    /\ p \in procs
    /\ call[p].op = "parse_status_checks"
    /\ call[p].pc = "done"

\* C38: the counts of a rollup add up, total = passed + failed + pending,
\* none is negative, and total is the number of entries of the rollup, 0
\* when the rollup is not a list.
C38_CountsAddUp ==
    \A p \in Procs :
        Aggregated(p) =>
            LET rollup == call[p].local.input
                r == call[p].resp
            IN  /\ r.total = r.passed + r.failed + r.pending
                /\ r.total >= 0 /\ r.passed >= 0 /\ r.failed >= 0 /\ r.pending >= 0
                /\ r.total = IF rollup.kind = "array" THEN Len(rollup.v) ELSE 0

\* A rollup of three checks, one passed, one failed and one still queued.
C38_Witness ==
    \E p \in Procs :
        /\ Aggregated(p)
        /\ call[p].local.input =
              JsonText("array", <<Check("COMPLETED", "SUCCESS"), Check("COMPLETED", "FAILURE"),
                                  Check("QUEUED", "")>>)
        /\ call[p].resp.total = 3
        /\ call[p].resp.passed = 1
        /\ call[p].resp.failed = 1
        /\ call[p].resp.pending = 1

----------------------------------------------------------------------------
(* Properties of workspace existence (SpecAll) *)

\* The call of p returns in this step.
Returns(c, d) == d.pc = "done" /\ d # c

\* C37: a workspace exists exactly when its directory does, whatever the
\* state of the branch.  A successful create leaves the directory, only a
\* create or a delete of the task adds or removes it, a successful delete
\* leaves none, and status reports exists=true, with the path and branch
\* that create returns, exactly when the directory is there.
C37_ExistenceIsTheDirectory ==
    [][\A p \in Procs :
          LET c == call[p]
              d == call'[p]
              branch == BranchName(d.bead)
              present == d.repo = "/repo" /\ branch \in dirs'
          IN  /\ (Returns(c, d) /\ d.op = "create" /\ d.resp.kind = "create") =>
                    /\ present
                    /\ d.resp.worktree_path = WorktreePath(d.repo, branch)
                    /\ d.resp.branch = branch
              /\ (Returns(c, d) /\ d.op = "delete" /\ d.resp.kind = "delete") => ~present
              /\ (Returns(c, d) /\ d.op = "status" /\ d.resp.kind = "status") =>
                    /\ d.resp.exists <=> present
                    /\ d.resp.exists =>
                          /\ d.resp.worktree_path = Some(WorktreePath(d.repo, branch))
                          /\ d.resp.branch = Some(branch)
              /\ (d # c /\ dirs' # dirs) =>
                    /\ d.op \in {"create", "delete"}
                    /\ dirs' \in {dirs \cup {branch}, dirs \ {branch}}]_vars

\* status answers exists=false while the branch is still there: the
\* workspace was deleted and the deletion of its branch failed.
C37_Witness ==
    \E p \in Procs :
        /\ call[p].op = "status"
        /\ call[p].pc = "done"
        /\ call[p].repo = "/repo"
        /\ call[p].resp.kind = "status"
        /\ ~call[p].resp.exists
        /\ BranchName(call[p].bead) \in branches
        /\ BranchName(call[p].bead) \notin dirs

----------------------------------------------------------------------------
(* Properties of concurrent creates (SpecCreateRace) *)

\* The create call has returned and the tool served each of its commands:
\* none failed to start, and the first add either succeeded or refused
\* because the branch or the path already exists.
Served(c) ==
    /\ c.op = "create"
    /\ c.pc = "done"
    /\ c.outs # <<>> \/ c.resp.kind = "create"
    /\ \A i \in 1..Len(c.outs) : c.outs[i] # OutSpawn
    /\ c.outs # <<>> => c.outs[1] \in {OutOk, OutFail(ErrAlreadyExists)}

\* C35: two concurrent create calls for the same task, starting with no
\* workspace and no branch, both return success with the same path, and
\* exactly one of them reports already_existed = false.
C35_BothCreatesSucceed ==
    (/\ Served(call[1])
     /\ Served(call[2])
     /\ call[1].bead = call[2].bead) =>
        /\ call[1].resp.kind = "create"
        /\ call[2].resp.kind = "create"
        /\ call[1].resp.worktree_path = call[2].resp.worktree_path
        /\ call[1].resp.already_existed # call[2].resp.already_existed

----------------------------------------------------------------------------
(* Properties of a batch under concurrent requests (SpecBatchRace) *)

\* The status the store holds for the bead after the step.
StatusAfter(bead) ==
    LET i == RecordIndex(store'.lines, bead)
    IN  IF ~store'.readable \/ i = 0 THEN None ELSE Some(store'.lines[i].status)

\* C34: at the moment a rebase or a force-push is issued for a sibling,
\* the status of that task in the store is "inreview", whatever changes of
\* status run concurrently with the batch.
C34_InReviewWhenRebasedOrPushed ==
    [][\A p \in Procs :
          \A i \in 1..Len(Added(call[p], call'[p])) :
              LET cmd == Added(call[p], call'[p])[i]
              IN  (/\ call'[p].op = "rebase"
                   /\ cmd.cmd \in {"git rebase origin/main", PushCmd}) =>
                      StatusAfter(call'[p].cur.bead) = Some("inreview")]_vars

\* The workspace of the path is gone.
Gone(path) == \A name \in dirs : path # WorktreePath("/repo", name)

\* The beads of a list of results.
ResultBeads(results) == [i \in 1..Len(results) |-> results[i].bead_id]

====
